---- MODULE Spec2Model ----
(***************************************************************************)
(* Bet-settlement pipeline of the dice house: the monitoring pass of       *)
(* TransactionProcessor, the two recovery procedures, the ledger           *)
(* (game_results, own_transactions, nonces) and the nonce rotation.        *)
(*                                                                         *)
(* Option<T> values are sequences of length at most one: None is <<>> and  *)
(* Some(x) is <<x>>.  Transaction ids are strings.                         *)
(***************************************************************************)
EXTENDS Integers, Sequences, FiniteSets, TLC

(***************************************************************************)
(* Bounds of the model.                                                    *)
(***************************************************************************)
\* Activity in one behaviour: the events of the environment (deposits of
\* players, manual sends of the operator, rotations of the nonce) plus the
\* runs of the tasks (monitoring passes and recovery sessions, a session
\* being catchup-missed-games, catchup-missed-payouts, or the first followed
\* by the second).
MaxActivity == 3
\* Failures in one behaviour: failed sends and failed ledger writes.
MaxFaults == 3
\* Amounts of the single bets: the distance from the ends of the range of
\* the amounts that are bets.
BetWindow == 2000
\* The number of requests for the history of the games.
MaxRequests == 1

(***************************************************************************)
(* Program constants.                                                      *)
(***************************************************************************)
MAX_RETRIES == 3
max_payout_sats == 100000
DustValue == 330

None == <<>>
Some(x) == <<x>>
IsSome(o) == o # <<>>
Unwrap(o) == o[1]

(***************************************************************************)
(* key_derivation.rs: the multipliers, by their ratio in hundredths.       *)
(***************************************************************************)
Multipliers == {105, 110, 133, 150, 200, 300, 1000, 2500, 5000, 10000, 100000}

get_lower_than(m) ==
    CASE m = 105 -> 60541
      [] m = 110 -> 57789
      [] m = 133 -> 47796
      [] m = 150 -> 42379
      [] m = 200 -> 31784
      [] m = 300 -> 21189
      [] m = 1000 -> 6356
      [] m = 2500 -> 2542
      [] m = 5000 -> 1271
      [] m = 10000 -> 635
      [] m = 100000 -> 64

is_win(m, rolled_number) == rolled_number < get_lower_than(m)

(***************************************************************************)
(* Addresses.  MainAddress is the house's own (main) address; the game     *)
(* addresses are named by their multiplier.                                *)
(***************************************************************************)
MainAddress == "main"
GameAddress(m) == "game" \o ToString(m)
Players == {"alice", "bob"}

(***************************************************************************)
(* A game address has two script-pubkey encodings.                         *)
(***************************************************************************)
to_p2tr_script_pubkey(addr) == "p2tr:" \o addr
to_sub_dust_script_pubkey(addr) == "subdust:" \o addr

(***************************************************************************)
(* Text, as the sequence of its characters.  to_string is the decimal      *)
(* form of a u64 and parse_u64 is str::parse::<u64>: an optional "+",      *)
(* then one or more decimal digits (zeros in front are accepted), anything *)
(* else is an error.  The texts of the model have a few characters, so     *)
(* that no parsed value leaves the range of a u64.                         *)
(***************************************************************************)
DigitChars == <<"0", "1", "2", "3", "4", "5", "6", "7", "8", "9">>
IsDigit(c) == \E d \in 1..10 : DigitChars[d] = c
DigitValue(c) == (CHOOSE d \in 1..10 : DigitChars[d] = c) - 1

RECURSIVE to_string(_)
to_string(n) ==
    IF n < 10 THEN <<DigitChars[n + 1]>>
    ELSE to_string(n \div 10) \o <<DigitChars[(n % 10) + 1]>>

RECURSIVE DigitsValue(_)
DigitsValue(digits) ==
    IF digits = <<>> THEN 0
    ELSE 10 * DigitsValue(SubSeq(digits, 1, Len(digits) - 1))
         + DigitValue(digits[Len(digits)])

parse_u64(text) ==
    LET digits == IF text # <<>> /\ Head(text) = "+" THEN Tail(text) ELSE text
    IN IF digits # <<>> /\ \A i \in 1..Len(digits) : IsDigit(digits[i])
       THEN [ok |-> TRUE, value |-> DigitsValue(digits)]
       ELSE [ok |-> FALSE, value |-> 0]

(***************************************************************************)
(* sha256 of the ascii of a nonce followed by a deposit txid: the first    *)
(* two bytes of the digest.  The table holds the digests of the values the *)
(* model uses (txid "ab" stands for the 64 hex characters "abab...ab").    *)
(***************************************************************************)
NonceValues == {42, 43}
\* The nonce the nonce service of a recovery command draws.
RecoveryNonces == {44}
InitialNonce == 42
DepositTxids == {"ab", "ff", "cd", "04", "05"}

Sha256First2(nonce, txid) ==
    CASE nonce = 42 /\ txid = "ab" -> <<67, 40>>
      [] nonce = 42 /\ txid = "ff" -> <<96, 96>>
      [] nonce = 42 /\ txid = "cd" -> <<211, 137>>
      [] nonce = 42 /\ txid = "04" -> <<75, 52>>
      [] nonce = 42 /\ txid = "05" -> <<31, 185>>
      [] nonce = 43 /\ txid = "ab" -> <<148, 151>>
      [] nonce = 43 /\ txid = "ff" -> <<131, 68>>
      [] nonce = 43 /\ txid = "cd" -> <<38, 2>>
      [] nonce = 43 /\ txid = "04" -> <<66, 199>>
      [] nonce = 43 /\ txid = "05" -> <<199, 143>>
      [] nonce = 42 /\ txid = "e1" -> <<25, 211>>
      [] nonce = 42 /\ txid = "e2" -> <<124, 30>>
      [] nonce = 42 /\ txid = "e3" -> <<153, 44>>
      [] nonce = 43 /\ txid = "e1" -> <<203, 245>>
      [] nonce = 43 /\ txid = "e2" -> <<198, 37>>
      [] nonce = 43 /\ txid = "e3" -> <<67, 158>>
      [] nonce = 44 /\ txid = "ab" -> <<160, 136>>
      [] nonce = 44 /\ txid = "ff" -> <<30, 221>>
      [] nonce = 44 /\ txid = "cd" -> <<4, 205>>
      [] nonce = 44 /\ txid = "04" -> <<222, 89>>
      [] nonce = 44 /\ txid = "05" -> <<90, 16>>
      [] nonce = 44 /\ txid = "e1" -> <<57, 80>>
      [] nonce = 44 /\ txid = "e2" -> <<147, 80>>
      [] nonce = 44 /\ txid = "e3" -> <<80, 91>>
      [] nonce = 2628 /\ txid = "ab" -> <<61, 0>>
      [] OTHER -> <<255, 255>>

\* sha256 of a text, in hex: the digests of the nonce texts the model uses.
Sha256Hex(text) ==
    CASE text = <<"4", "2">> -> "73475cb40a568e8da8a045ced110137e159f890ac4da883b6b17dc651b3a8049"
      [] text = <<"4", "3">> -> "44cb730c420480a0477b505ae68af508fb90f96cf0ec54c6ad16949dd427f13a"
      [] text = <<"4", "4">> -> "71ee45a3c0db9a9865f7313dd3372cf60dca6479d46261f3542eb9346e4a04d6"
      [] text = <<"2", "6", "2", "8">> -> "e3258a34514b7d09da9f53689ab5b866c4277b4ec62cdabab68494af60063855"
      [] OTHER -> "?"

\* u16::from_be_bytes
Byte == 0..255
from_be_bytes_LittleEndian(bytes) == bytes[2] * 256 + bytes[1]
from_be_bytes(bytes) == bytes[1] * 256 + bytes[2]

(***************************************************************************)
(* Natural numbers of any size, as sequences of digits in base LimbBase,   *)
(* the least significant first and the most significant not zero.          *)
(***************************************************************************)
LimbBits == 13
LimbBase == 2^LimbBits

RECURSIVE BigOf(_)
BigOf(n) == IF n = 0 THEN <<>> ELSE <<n % LimbBase>> \o BigOf(n \div LimbBase)

RECURSIVE BigValue(_)
BigValue(a) == IF a = <<>> THEN 0 ELSE Head(a) + LimbBase * BigValue(Tail(a))

RECURSIVE BigNorm(_)
BigNorm(a) ==
    IF a # <<>> /\ a[Len(a)] = 0 THEN BigNorm(SubSeq(a, 1, Len(a) - 1)) ELSE a

RECURSIVE BitLen(_)
BitLen(n) == IF n = 0 THEN 0 ELSE 1 + BitLen(n \div 2)

\* The number of binary digits of a.
BigBitLen(a) ==
    IF a = <<>> THEN 0 ELSE LimbBits * (Len(a) - 1) + BitLen(a[Len(a)])

\* The binary digit of a of weight 2^i.
BigBit(a, i) ==
    LET k == (i \div LimbBits) + 1
    IN IF k > Len(a) THEN 0 ELSE (a[k] \div 2^(i % LimbBits)) % 2

\* a mod 2^d = 0
BigLowZero(a, d) ==
    LET k == d \div LimbBits
    IN /\ \A i \in 1..k : i <= Len(a) => a[i] = 0
       /\ k + 1 <= Len(a) => a[k + 1] % 2^(d % LimbBits) = 0

\* floor(a / 2^d)
BigShiftRight(a, d) ==
    LET k == d \div LimbBits
        j == d % LimbBits
        digit(i) == IF i > Len(a) THEN 0 ELSE a[i]
    IN BigNorm([i \in 1..(IF Len(a) > k THEN Len(a) - k ELSE 0) |->
                   (digit(i + k) \div 2^j)
                   + (digit(i + k + 1) % 2^j) * 2^(LimbBits - j)])

\* a + b + carry
RECURSIVE BigAdd(_, _, _)
BigAdd(a, b, carry) ==
    IF a = <<>> /\ b = <<>> THEN BigOf(carry)
    ELSE LET t == (IF a = <<>> THEN 0 ELSE Head(a))
                  + (IF b = <<>> THEN 0 ELSE Head(b)) + carry
         IN <<t % LimbBase>>
            \o BigAdd(IF a = <<>> THEN a ELSE Tail(a),
                      IF b = <<>> THEN b ELSE Tail(b), t \div LimbBase)

\* a * x + carry, for a digit x
RECURSIVE BigMulDigit(_, _, _)
BigMulDigit(a, x, carry) ==
    IF a = <<>> THEN BigOf(carry)
    ELSE LET t == Head(a) * x + carry
         IN <<t % LimbBase>> \o BigMulDigit(Tail(a), x, t \div LimbBase)

\* a * b
RECURSIVE BigMul(_, _)
BigMul(a, b) ==
    IF a = <<>> THEN <<>>
    ELSE BigNorm(BigAdd(BigMulDigit(b, Head(a), 0),
                        <<0>> \o BigMul(Tail(a), b), 0))

(***************************************************************************)
(* f64 (IEEE 754 binary64), for the finite values that are zero or         *)
(* positive and normal: [mant, exp] is the value mant * 2^exp, with mant a *)
(* natural number of at most F64_MANTISSA_DIGITS binary digits.  Results   *)
(* are rounded to nearest, ties to even.                                   *)
(***************************************************************************)
F64_MANTISSA_DIGITS == 53

\* Variant: results are rounded toward zero.
RoundF64_TowardZero(n, exp, sticky) ==
    LET d == BigBitLen(n) - F64_MANTISSA_DIGITS
    IN IF d <= 0 THEN [mant |-> n, exp |-> exp]
       ELSE [mant |-> BigShiftRight(n, d), exp |-> exp + d]

\* The f64 nearest to (n + f) * 2^exp, where 0 <= f < 1 and sticky tells
\* whether f > 0 (n then has more digits than the mantissa).
RoundF64(n, exp, sticky) ==
    LET d == BigBitLen(n) - F64_MANTISSA_DIGITS
        kept == BigShiftRight(n, d)
        half == BigBit(n, d - 1) = 1
        more == sticky \/ ~BigLowZero(n, d - 1)
        up == half /\ (more \/ BigBit(kept, 0) = 1)
        rounded == IF up THEN BigAdd(kept, <<>>, 1) ELSE kept
    IN IF d <= 0 THEN [mant |-> n, exp |-> exp]
       ELSE IF BigBitLen(rounded) > F64_MANTISSA_DIGITS
       THEN [mant |-> BigShiftRight(rounded, 1), exp |-> exp + d + 1]
       ELSE [mant |-> rounded, exp |-> exp + d]

\* n as f64
U64ToF64(n) == RoundF64(BigOf(n), 0, FALSE)

\* f as u64: the truncation toward zero
F64ToU64(f) ==
    IF f.exp >= 0 THEN BigValue(f.mant) * 2^f.exp
    ELSE BigValue(BigShiftRight(f.mant, 0 - f.exp))

\* f * g
F64Mul(f, g) == RoundF64(BigMul(f.mant, g.mant), f.exp + g.exp, FALSE)

\* The quotient x / y of two naturals below LimbBase^2, y > 0: the digits
\* of the long division that follow n, from the remainder rem, until one
\* binary digit more than the mantissa is known.
RECURSIVE DivDigits(_, _, _, _)
DivDigits(n, rem, y, exp) ==
    IF BigBitLen(n) > F64_MANTISSA_DIGITS \/ rem = 0
    THEN RoundF64(n, exp, rem # 0)
    ELSE DivDigits(BigNorm(<<(rem * LimbBase) \div y>> \o n),
                   (rem * LimbBase) % y, y, exp - LimbBits)

\* f / g, for f and g of integer value below LimbBase^2 (g not zero)
F64Div(f, g) ==
    LET x == F64ToU64(f)
        y == F64ToU64(g)
    IN DivDigits(BigOf(x \div y), x % y, y, 0)

(***************************************************************************)
(* games/satoshis_number.rs: the evaluator.                                *)
(***************************************************************************)
\* multiplier.multiplier() as f64 / 100.0
PayoutMultiplier == [m \in Multipliers |-> F64Div(U64ToF64(m), U64ToF64(100))]

\* The evaluation once the digest is known.
GameEvaluation(hash_bytes, m) ==
    LET random_value == from_be_bytes(hash_bytes)
        player_wins == is_win(m, random_value)
    IN [rolled_value |-> random_value,
        is_win |-> player_wins,
        payout_multiplier |-> IF player_wins THEN Some(PayoutMultiplier[m])
                              ELSE None]

evaluate(nonce, txid, m) == GameEvaluation(Sha256First2(nonce, txid), m)

\* (input_amount as f64 * payout_multiplier) as u64
PayoutAmount(input_amount, payout_multiplier) ==
    F64ToU64(F64Mul(U64ToF64(input_amount), payout_multiplier))

\* server.rs, get_game_addresses: the greatest bet advertised for the
\* multiplier.
\* Variant: the ratio is brought to whole units before the division.
max_bet_amount_WholeRatio(m) == max_payout_sats \div (m \div 100)

max_bet_amount(m) == (max_payout_sats * 100) \div m

\* Variant: the threshold without the scaling of the ratio by 100.
get_donation_threshold_NoScale(m) == max_payout_sats \div m

\* Variant: the threshold is one satoshi higher.
get_donation_threshold_OneMore(m) == (max_payout_sats * 100) \div m + 1

get_donation_threshold(m) == (max_payout_sats * 100) \div m

(***************************************************************************)
(* The deposits players may make: outpoints at game addresses.             *)
(* parents is what get_parent_vtxo returns for the outpoint.               *)
(***************************************************************************)
Vtxo(txid, amount, m, script, parents) ==
    [txid |-> txid, vout |-> 0, amount |-> amount, multiplier |-> m,
     script |-> script, parents |-> parents]

PlayerDeposits ==
    { Vtxo("ab", 33333, 300, to_p2tr_script_pubkey(GameAddress(300)), <<"alice">>),
      Vtxo("ff", 100, 200, to_sub_dust_script_pubkey(GameAddress(200)), <<MainAddress, "bob">>),
      Vtxo("cd", 500, 200, to_p2tr_script_pubkey(GameAddress(200)), <<"bob">>),
      Vtxo("04", 33334, 300, to_p2tr_script_pubkey(GameAddress(300)), <<"bob">>),
      Vtxo("05", 500, 200, to_p2tr_script_pubkey(GameAddress(200)), <<MainAddress>>) }

\* A deposit whose parent is not in the horizon of the backend:
\* get_parent_vtxo returns no address for it.
UnresolvedDeposits ==
    { Vtxo("06", 500, 200, to_p2tr_script_pubkey(GameAddress(200)), <<>>) }

(***************************************************************************)
(* State.                                                                  *)
(*   vtxos             outpoints the backend lists at the game addresses   *)
(*   game_results      the game_results table, in insertion (id) order     *)
(*   own_transactions  the own_transactions table                          *)
(*   nonces            the nonces table                                    *)
(*   current_nonce     NonceService.current_nonce                          *)
(*   rotations         number of rotations of the nonce so far             *)
(*   rot               the periodic generation task of the nonce service   *)
(*   mon               the monitoring task (TransactionProcessor)          *)
(*   rec               the recovery command being run                      *)
(*   cli               the manual send command being run                   *)
(*   web               the handler of a request for the game history       *)
(*   args, ret         the arguments and the result of a function that is  *)
(*                     applied on its own                                  *)
(* History variables, written but never read by the program's actions:     *)
(*   sends             every call of send / send_vtxo for a payout         *)
(*   emitted           every game result sent to the players               *)
(*   classified        every outpoint a classifier examined                *)
(*   evaluated         every outpoint the evaluator was applied to         *)
(*   rowWriter         who inserted each row of game_results               *)
(*   dbErrors          number of ledger reads and writes and of wallet     *)
(*                     syncs that failed                                   *)
(***************************************************************************)
VARIABLES vtxos, game_results, own_transactions, nonces, current_nonce,
          rotations, rot, mon, rec, cli, web, emitted, sends, classified,
          evaluated, rowWriter, dbErrors, args, ret

ledger == <<game_results, own_transactions, rowWriter, dbErrors>>
nonceVars == <<nonces, current_nonce, rotations, rot>>
history == <<sends, classified, evaluated>>
server == <<web, emitted>>
call == <<args, ret>>
vars == <<vtxos, game_results, own_transactions, nonces, current_nonce,
          rotations, rot, mon, rec, cli, web, emitted, sends, classified,
          evaluated, rowWriter, dbErrors, args, ret>>

(***************************************************************************)
(* The order in which the backend lists a set of outpoints.                *)
(***************************************************************************)
RECURSIVE ListOf(_)
ListOf(S) ==
    IF S = {} THEN <<>>
    ELSE LET x == CHOOSE y \in S : TRUE IN <<x>> \o ListOf(S \ {x})

(***************************************************************************)
(* db.rs: the ledger.  A write that the store rejects (fail) leaves the    *)
(* table as it was and returns Err.                                        *)
(***************************************************************************)
\* Variant: the row takes the nonce that is current when it is made.
GameRow_NonceOfNow(nonce, rolled_number, input_tx_id, output_tx_id, bet_amount, winning_amount, player_address, is_winner, payment_successful, multiplier) ==
    [id |-> 0, nonce |-> to_string(current_nonce), rolled_number |-> rolled_number,
     input_tx_id |-> input_tx_id, output_tx_id |-> output_tx_id,
     bet_amount |-> bet_amount, winning_amount |-> winning_amount,
     player_address |-> player_address, is_winner |-> is_winner,
     payment_successful |-> payment_successful, multiplier |-> multiplier]

GameRow(nonce, rolled_number, input_tx_id, output_tx_id, bet_amount, winning_amount, player_address, is_winner, payment_successful, multiplier) ==
    [id |-> 0, nonce |-> to_string(nonce), rolled_number |-> rolled_number,
     input_tx_id |-> input_tx_id, output_tx_id |-> output_tx_id,
     bet_amount |-> bet_amount, winning_amount |-> winning_amount,
     player_address |-> player_address, is_winner |-> is_winner,
     payment_successful |-> payment_successful, multiplier |-> multiplier]

is_transaction_processed(rows, input_tx_id) ==
    \E i \in 1..Len(rows) : rows[i].input_tx_id = input_tx_id

is_own_transaction(own, tx_id) ==
    \E o \in own : o.tx_id = tx_id

\* game_results.input_tx_id TEXT NOT NULL UNIQUE
UniqueInputTxId(rows, input_tx_id) ==
    ~ \E i \in 1..Len(rows) : rows[i].input_tx_id = input_tx_id

\* own_transactions.tx_id TEXT NOT NULL UNIQUE
UniqueOwnTxId(own, tx_id) ==
    ~ \E o \in own : o.tx_id = tx_id

InsertGameResultOk(rows, row, fail) ==
    ~fail /\ UniqueInputTxId(rows, row.input_tx_id)

\* Variant: the insert does not enforce the uniqueness of input_tx_id.
insert_game_result_NoUnique(rows, row, fail) ==
    IF ~fail THEN Append(rows, [row EXCEPT !.id = Len(rows) + 1]) ELSE rows

insert_game_result(rows, row, fail) ==
    IF InsertGameResultOk(rows, row, fail)
    THEN Append(rows, [row EXCEPT !.id = Len(rows) + 1])
    ELSE rows

insert_own_transaction(own, tx_id, transaction_type, fail) ==
    IF ~fail /\ UniqueOwnTxId(own, tx_id)
    THEN own \cup {[tx_id |-> tx_id, transaction_type |-> transaction_type]}
    ELSE own

\* Variant: the update sets payment_successful and leaves output_tx_id.
mark_payment_successful_NoTxId(rows, game_id, output_tx_id, fail) ==
    IF fail \/ ~ \E i \in 1..Len(rows) : rows[i].id = game_id THEN rows
    ELSE LET i == CHOOSE j \in 1..Len(rows) : rows[j].id = game_id
         IN [rows EXCEPT ![i].payment_successful = TRUE]

mark_payment_successful(rows, game_id, output_tx_id, fail) ==
    IF fail \/ ~ \E i \in 1..Len(rows) : rows[i].id = game_id THEN rows
    ELSE LET i == CHOOSE j \in 1..Len(rows) : rows[j].id = game_id
         IN [rows EXCEPT ![i].payment_successful = TRUE,
                         ![i].output_tx_id = Some(output_tx_id)]

IsUnpaidWinner(row) == row.is_winner /\ ~row.payment_successful

get_unpaid_winners(rows) == SelectSeq(rows, IsUnpaidWinner)

\* The commands catchup-missed-games and catchup-missed-payouts are run by
\* hand, each run in a process of its own: the processes that may run at
\* the same time.
RecoveryProcs == {1, 2}

\* The numbers the bounds of the model limit.
Rotations == rotations + (IF rot.pc = "write" THEN 1 ELSE 0)
Events ==
    Cardinality(vtxos \cap (PlayerDeposits \cup UnresolvedDeposits))
       + Rotations + cli.n
RECURSIVE SumOfRuns(_)
SumOfRuns(procs) ==
    IF procs = {} THEN 0
    ELSE LET p == CHOOSE q \in procs : TRUE
         IN rec[p].runs + SumOfRuns(procs \ {p})

Runs == mon.passes + SumOfRuns(RecoveryProcs)
Activity == Events + Runs
Faults == dbErrors + Cardinality({s \in sends : ~s.ok})

\* A ledger write may fail in the store.
MayFail(fail) == fail => Faults < MaxFaults

\* The outcomes of a call of send: TRUE when the backend accepts it.
SendOutcomes == {ok \in BOOLEAN : ok \/ Faults < MaxFaults}

CountFail(fail) == IF fail THEN dbErrors + 1 ELSE dbErrors

(***************************************************************************)
(* Idle states of the tasks.                                               *)
(***************************************************************************)
MonIdle(passes) ==
    [pc |-> "sleep", passes |-> passes, snapshot |-> <<>>, winners |-> <<>>,
     losers |-> <<>>, donations |-> <<>>, dust_winners |-> <<>>,
     regular_winners |-> <<>>, retry_count |-> 0, txid |-> None,
     game_item |-> None, resume |-> "", lost |-> {}, lost_at |-> 0,
     last_error |-> "", sending |-> FALSE]

RecIdle(runs) ==
    [pc |-> "idle", runs |-> runs, after_games |-> FALSE,
     snapshot |-> <<>>,
     unpaid_winners |-> <<>>, retry_count |-> 0, txid |-> None,
     failed_payouts |-> 0, nonce |-> 0, dry_run |-> FALSE,
     command |-> "", result |-> "", error |-> "", sending |-> FALSE]

CliIdle(n) ==
    [pc |-> "idle", n |-> n, txid |-> None, command |-> "", result |-> ""]

RotIdle == [pc |-> "sleep", new_nonce |-> 0]

WebIdle(n) == [pc |-> "idle", n |-> n, channel |-> "", rows |-> <<>>]

(***************************************************************************)
(* nonce_service.rs: the hash of the current nonce, the row of a nonce in  *)
(* the table of nonces, and the nonce that may be revealed.                *)
(***************************************************************************)
get_current_nonce_hash == Sha256Hex(to_string(current_nonce))

NonceRow(nonce) ==
    [nonce |-> to_string(nonce), nonce_hash |-> Sha256Hex(to_string(nonce))]

get_revealable_nonce_Never(nonce_str) == None

get_revealable_nonce_CompareText(nonce_str) ==
    IF nonce_str # to_string(current_nonce) THEN Some(nonce_str) ELSE None

get_revealable_nonce(nonce_str) ==
    LET parsed == parse_u64(nonce_str)
    IN IF ~parsed.ok THEN None
       ELSE IF parsed.value # current_nonce THEN Some(nonce_str)
       ELSE None

Init ==
    /\ vtxos = {}
    /\ game_results = <<>>
    /\ own_transactions = {}
    /\ current_nonce = InitialNonce
    /\ nonces = {NonceRow(current_nonce)}
    /\ rotations = 0
    /\ rot = RotIdle
    /\ web = WebIdle(0)
    /\ emitted = {}
    /\ args = None
    /\ ret = None
    /\ mon = MonIdle(0)
    /\ rec = [p \in RecoveryProcs |-> RecIdle(0)]
    /\ cli = CliIdle(0)
    /\ sends = {}
    /\ classified = {}
    /\ evaluated = {}
    /\ rowWriter = <<>>
    /\ dbErrors = 0

(***************************************************************************)
(* Environment: a player pays to a game address.                           *)
(***************************************************************************)
Deposit ==
    /\ Activity < MaxActivity
    /\ \E d \in PlayerDeposits \ vtxos : vtxos' = vtxos \cup {d}
    /\ UNCHANGED <<server, call, ledger, nonceVars, mon, rec, cli, history>>

(***************************************************************************)
(* nonce_service.rs: one iteration of the periodic generation task.  The   *)
(* task draws a new nonce and inserts its row (a failure of the insert is  *)
(* only logged); then it takes the write lock and replaces the current     *)
(* nonce.  Other tasks run between the two steps.                          *)
(***************************************************************************)
RotateInsert ==
    /\ rot.pc = "sleep"
    /\ Activity < MaxActivity
    /\ \E new_nonce \in NonceValues \ {current_nonce}, fail \in BOOLEAN :
         /\ MayFail(fail)
         /\ nonces' = IF fail THEN nonces
                      ELSE nonces \cup {NonceRow(new_nonce)}
         /\ dbErrors' = CountFail(fail)
         /\ rot' = [pc |-> "write", new_nonce |-> new_nonce]
    /\ UNCHANGED <<server, call, vtxos, game_results, own_transactions,
                   rowWriter, current_nonce, rotations, mon, rec, cli, history>>

RotateWrite ==
    /\ rot.pc = "write"
    /\ current_nonce' = rot.new_nonce
    /\ rotations' = rotations + 1
    /\ rot' = RotIdle
    /\ UNCHANGED <<server, call, vtxos, ledger, nonces, mon, rec, cli, history>>

(***************************************************************************)
(* bin/ark-cli.rs, Commands::Send: a manual send.  When the destination is *)
(* a game address the new outpoint shows up among the game outpoints; its  *)
(* parent is the house outpoint that was spent.                            *)
(***************************************************************************)
ManualTxid(n) == "e" \o ToString(n)

CliSend ==
    /\ cli.pc = "idle"
    /\ Activity < MaxActivity
    /\ LET txid == ManualTxid(cli.n + 1)
       IN /\ vtxos' = vtxos \cup
                {Vtxo(txid, 500, 200, to_p2tr_script_pubkey(GameAddress(200)),
                      <<GameAddress(300)>>)}
          /\ cli' = [CliIdle(cli.n + 1) EXCEPT !.pc = "sent",
                                               !.txid = Some(txid),
                                               !.command = "send"]
    /\ UNCHANGED <<server, call, ledger, nonceVars, mon, rec, history>>

\* Commands::Settle: the wallet settles its outpoints and boarding outputs
\* into a round whose output goes to the main address, so no outpoint of a
\* game address is made; settle returns no txid when there is nothing to
\* settle.  The outpoints of the main address and the boarding outputs are
\* not part of the model, nor is the spent state of the game outpoints,
\* which list_vtxos keeps listing.
SettleTxid(n) == "round" \o ToString(n)

CliSettle ==
    /\ cli.pc = "idle"
    /\ Activity < MaxActivity
    /\ \E settled \in BOOLEAN :
          cli' = IF settled
                 THEN [CliIdle(cli.n + 1) EXCEPT
                          !.pc = "sent", !.txid = Some(SettleTxid(cli.n + 1)),
                          !.command = "settle"]
                 ELSE [CliIdle(cli.n + 1) EXCEPT
                          !.command = "settle", !.result = "Ok"]
    /\ UNCHANGED <<server, call, vtxos, ledger, nonceVars, mon, rec, history>>

TransactionType(command) ==
    IF command = "send" THEN "manual_send" ELSE "consolidation"

\* The result of a command whose insert into own_transactions is followed
\* by `?`.
\* Variant: the error of the insert is only logged.
CommandResult_Logged(fail) == "Ok"

CommandResult(fail) == IF fail THEN "Err" ELSE "Ok"

\* The insert of the txid the wallet returned; the command ends with the
\* result of the insert.
CliInsertOwn ==
    /\ cli.pc = "sent"
    /\ \E fail \in BOOLEAN :
         /\ MayFail(fail)
         /\ own_transactions' =
               insert_own_transaction(own_transactions, Unwrap(cli.txid),
                                      TransactionType(cli.command), fail)
         /\ dbErrors' = CountFail(fail)
         /\ cli' = [cli EXCEPT !.pc = "idle", !.result = CommandResult(fail)]
    /\ UNCHANGED <<server, call, vtxos, game_results, rowWriter, nonceVars, mon, rec, history>>

(***************************************************************************)
(* transaction_processor.rs: the monitoring pass.                          *)
(***************************************************************************)
\* The first parent address that is not the house's own address.
\* Variant: the first parent address, whoever it belongs to.
FirstSender_FirstParent(parents) ==
    IF parents = <<>> THEN None ELSE Some(Head(parents))

FirstSender(parents) ==
    LET others == SelectSeq(parents, LAMBDA a : a # MainAddress)
    IN IF others = <<>> THEN None ELSE Some(Head(others))

GameResult(outpoint, m, sender, nonce, rolled_number, win, payout_amount) ==
    [multiplier |-> m, outpoint |-> outpoint, sender |-> sender,
     input_amount |-> outpoint.amount, current_nonce |-> nonce,
     rolled_number |-> rolled_number, is_win |-> win,
     payout_amount |-> payout_amount]

\* Variant: an amount equal to the threshold counts as a donation.
IsDonationAmount_Inclusive(input_amount, m) ==
    input_amount >= get_donation_threshold(m)

IsDonationAmount(input_amount, m) == input_amount > get_donation_threshold(m)

\* evaluate_game, once get_parent_vtxo has returned the parents.
evaluate_game(m, outpoint, nonce) ==
    LET sender == FirstSender(outpoint.parents)
        evaluation == evaluate(nonce, outpoint.txid, m)
    IN IF sender = None THEN None
       ELSE IF IsDonationAmount(outpoint.amount, m)
       THEN Some(GameResult(outpoint, m, Unwrap(sender), nonce, -1, FALSE, None))
       ELSE Some(GameResult(outpoint, m, Unwrap(sender), nonce,
                            evaluation.rolled_value, evaluation.is_win,
                            IF evaluation.is_win
                            THEN Some(PayoutAmount(outpoint.amount,
                                                   Unwrap(evaluation.payout_multiplier)))
                            ELSE None))

\* Variant: the match does not look at is_own_tx.
IsNewTransaction_IgnoreOwn(rows, own, tx_id) ==
    ~is_transaction_processed(rows, tx_id)

\* Variant: the match does not look at is_tx_processed.
IsNewTransaction_IgnoreProcessed(rows, own, tx_id) ==
    ~is_own_transaction(own, tx_id)

\* The match of check_for_new_transactions on (is_tx_processed, is_own_tx).
IsNewTransaction(rows, own, tx_id) ==
    ~is_transaction_processed(rows, tx_id) /\ ~is_own_transaction(own, tx_id)

\* The arm of the match on the game result: "donation", "winner" or "loser".
Classify(result) ==
    IF result.payout_amount = None
       /\ result.input_amount > get_donation_threshold(result.multiplier)
    THEN "donation"
    ELSE IF result.is_win THEN "winner" ELSE "loser"

PayoutOf(winner) ==
    IF winner.payout_amount = None THEN 0 ELSE Unwrap(winner.payout_amount)

IsDustWinner(winner) == PayoutOf(winner) < DustValue
IsRegularWinner(winner) == ~IsDustWinner(winner)

\* The position of the pass once the current stage has nothing left to do:
\* donations, then dust winners, then the regular batch, then losers.
Stage(m) ==
    IF m.donations # <<>> THEN "donation"
    ELSE IF m.dust_winners # <<>> THEN "dust_send"
    ELSE IF m.regular_winners # <<>> THEN "batch_send"
    ELSE IF m.losers # <<>> THEN "loser"
    ELSE "sleep"

Continue(m) ==
    LET pc == Stage(m)
    IN IF pc = "sleep" THEN MonIdle(m.passes) ELSE [m EXCEPT !.pc = pc]

\* What a classifier found for an outpoint and whether it let it through.
ClassifiedBy(by, run, outpoint, let_through) ==
    [by |-> by, run |-> run, txid |-> outpoint.txid,
     wasOwn |-> is_own_transaction(own_transactions, outpoint.txid),
     hadRow |-> is_transaction_processed(game_results, outpoint.txid),
     let_through |-> let_through]

EvaluatedBy(by, outpoint) ==
    [by |-> by, txid |-> outpoint.txid]

\* The task, the run of it and the payout execution that wrote a row.
Writer(by, run, exec) == [by |-> by, run |-> run, exec |-> exec]

\* End of the first loop of check_for_new_transactions: process_batch_results
\* and the partition of process_batch_winners.
EndOfClassify(m) ==
    IF m.snapshot # <<>> THEN m
    ELSE Continue([m EXCEPT !.dust_winners = SelectSeq(m.winners, IsDustWinner),
                            !.regular_winners = SelectSeq(m.winners, IsRegularWinner),
                            !.winners = <<>>])

\* spendable_game_vtxos: the listing of the game outpoints.
MonStart ==
    /\ mon.pc = "sleep"
    /\ Activity < MaxActivity
    /\ mon' = EndOfClassify([MonIdle(mon.passes + 1) EXCEPT
                                !.pc = "classify", !.snapshot = ListOf(vtxos)])
    /\ UNCHANGED <<server, call, vtxos, ledger, nonceVars, rec, cli, history>>

\* One iteration of the first loop: the match on (is_tx_processed,
\* is_own_tx), evaluate_game and the match on the game result.
MonClassify ==
    /\ mon.pc = "classify"
    /\ mon.snapshot # <<>>
    /\ LET outpoint == Head(mon.snapshot)
           rest == [mon EXCEPT !.snapshot = Tail(mon.snapshot)]
           result == evaluate_game(outpoint.multiplier, outpoint, current_nonce)
       IN IF IsNewTransaction(game_results, own_transactions, outpoint.txid)
             /\ result # None
          THEN LET r == Unwrap(result)
                   arm == Classify(r)
               IN /\ mon' = EndOfClassify(
                       CASE arm = "donation" ->
                              [rest EXCEPT !.donations = Append(@, r)]
                         [] arm = "winner" ->
                              [rest EXCEPT !.winners = Append(@, r)]
                         [] OTHER ->
                              [rest EXCEPT !.losers = Append(@, r)])
                  /\ classified' = classified \cup
                        {ClassifiedBy("monitor", mon.passes, outpoint, TRUE)}
                  /\ evaluated' = IF r.rolled_number = -1 THEN evaluated
                                  ELSE evaluated \cup
                                         {EvaluatedBy("monitor", outpoint)}
          ELSE /\ mon' = EndOfClassify(rest)
               /\ classified' = classified \cup
                     {ClassifiedBy("monitor", mon.passes, outpoint, FALSE)}
               /\ UNCHANGED evaluated
    /\ UNCHANGED <<server, call, vtxos, ledger, nonceVars, rec, cli, sends>>

\* get_parent_vtxo returns an error: evaluate_game and the whole pass return
\* it, and nothing the pass has collected is processed.
MonEvaluateErr ==
    /\ mon.pc = "classify"
    /\ mon.snapshot # <<>>
    /\ IsNewTransaction(game_results, own_transactions, Head(mon.snapshot).txid)
    /\ mon' = MonIdle(mon.passes)
    /\ UNCHANGED <<server, call, vtxos, ledger, nonceVars, rec, cli, history>>

(***************************************************************************)
(* History of the payout sends.  One execution of the payout procedure is  *)
(* named by exec; attempt numbers the calls of send within it.             *)
(***************************************************************************)
Attempts(exec) == Cardinality({s \in sends : s.exec = exec})

SendRecord(by, run, exec, outputs, ok) ==
    LET attempt == Attempts(exec) + 1
    IN [by |-> by, run |-> run, exec |-> exec, attempt |-> attempt,
        outputs |-> outputs,
        ok |-> ok,
        txid |-> IF ok THEN Some("pay:" \o exec \o "#" \o ToString(attempt))
                 ELSE None]

Output(deposit, address, amount) ==
    [deposit |-> deposit, address |-> address, amount |-> amount]

WinnerOutput(winner) ==
    Output(winner.outpoint.txid, winner.sender, PayoutOf(winner))

RECURSIVE WinnerOutputs(_)
WinnerOutputs(winners) ==
    IF winners = <<>> THEN {}
    ELSE {WinnerOutput(Head(winners))} \cup WinnerOutputs(Tail(winners))

MonExec(kind) == "m" \o ToString(mon.passes) \o ":" \o kind

\* The retry policy of the payout loops of the monitoring pass: the number
\* of failed sends after which the loop gives up.
\* Variant: the loop gives up one failure later.
RetriesExhausted_OffByOne(retry_count) == retry_count > MAX_RETRIES

RetriesExhausted(retry_count) == retry_count >= MAX_RETRIES

\* process_donation
DonationRow(donation) ==
    GameRow(donation.current_nonce, donation.rolled_number,
            donation.outpoint.txid, None, donation.input_amount, None,
            donation.sender, FALSE, FALSE, donation.multiplier)

\* Variant: the row is marked paid whatever the outcome of the sends.
WinnerRow_AlwaysPaid(winner, payout_txid) ==
    GameRow(winner.current_nonce, winner.rolled_number, winner.outpoint.txid,
            payout_txid, winner.input_amount, winner.payout_amount,
            winner.sender, TRUE, TRUE, winner.multiplier)

\* process_winner_result
WinnerRow(winner, payout_txid) ==
    GameRow(winner.current_nonce, winner.rolled_number, winner.outpoint.txid,
            payout_txid, winner.input_amount, winner.payout_amount,
            winner.sender, TRUE, IsSome(payout_txid), winner.multiplier)

\* process_loser
LoserRow(loser) ==
    GameRow(loser.current_nonce, loser.rolled_number, loser.outpoint.txid,
            None, loser.input_amount, None, loser.sender, FALSE, TRUE,
            loser.multiplier)

\* server.rs, GameHistoryItem: a game result as the players receive it.
GameHistoryItem(id, input_tx_id, win, output_tx_id, nonce, nonce_hash) ==
    [id |-> id, input_tx_id |-> input_tx_id, is_win |-> win,
     output_tx_id |-> output_tx_id, nonce |-> nonce, nonce_hash |-> nonce_hash]

\* A game result sent on a channel: "broadcast" to the connected players,
\* "games" in the response of GET /games, "history" in the first message on
\* a websocket.
Emitted(channel, item) == [channel |-> channel, item |-> item]

\* The end of process_winner_result and of process_loser: when the row is
\* stored the result is broadcast.  The revealable nonce is read first and
\* then, in a step of its own, the hash of the current nonce.
Broadcasting(m, stored, game, output_tx_id) ==
    IF ~stored THEN m
    ELSE [m EXCEPT !.pc = "broadcast", !.resume = m.pc,
                   !.game_item =
                      Some([input_tx_id |-> game.outpoint.txid,
                            is_win |-> game.is_win,
                            output_tx_id |-> output_tx_id,
                            nonce |-> get_revealable_nonce(
                                         to_string(game.current_nonce))])]

\* An insert into game_results by the task named writer.
InsertRow(row, writer, fail) ==
    /\ MayFail(fail)
    /\ game_results' = insert_game_result(game_results, row, fail)
    /\ rowWriter' = IF InsertGameResultOk(game_results, row, fail)
                    THEN Append(rowWriter, writer) ELSE rowWriter
    /\ dbErrors' = CountFail(fail)

\* An insert into own_transactions.
InsertOwn(tx_id, transaction_type, fail) ==
    /\ MayFail(fail)
    /\ own_transactions' =
          insert_own_transaction(own_transactions, tx_id, transaction_type, fail)
    /\ dbErrors' = CountFail(fail)

MonDonation ==
    /\ mon.pc = "donation"
    /\ \E fail \in BOOLEAN :
          InsertRow(DonationRow(Head(mon.donations)),
                    Writer("monitor", mon.passes, ""), fail)
    /\ mon' = Continue([mon EXCEPT !.donations = Tail(@)])
    /\ UNCHANGED <<server, call, vtxos, own_transactions, nonceVars, rec, cli, history>>

\* One call of send in process_individual_winner.
MonSendIndividual ==
    /\ mon.pc = "dust_send"
    /\ LET winner == Head(mon.dust_winners)
       IN \E ok \in SendOutcomes :
            LET s == SendRecord("monitor", mon.passes,
                                MonExec(winner.outpoint.txid),
                                {WinnerOutput(winner)}, ok)
            IN /\ sends' = sends \cup {s}
               /\ mon' = IF ok
                         THEN [mon EXCEPT !.sending = FALSE, !.pc = "dust_own", !.txid = s.txid]
                         ELSE IF RetriesExhausted(mon.retry_count + 1)
                         THEN [mon EXCEPT !.sending = FALSE, !.pc = "dust_row", !.txid = None,
                                          !.retry_count = @ + 1]
                         ELSE [mon EXCEPT !.sending = FALSE, !.retry_count = @ + 1]
    /\ UNCHANGED <<server, call, vtxos, ledger, nonceVars, rec, cli, classified, evaluated>>

MonOwnIndividual ==
    /\ mon.pc = "dust_own"
    /\ \E fail \in BOOLEAN :
          InsertOwn(Unwrap(mon.txid), "individual_payout", fail)
    /\ mon' = [mon EXCEPT !.pc = "dust_row"]
    /\ UNCHANGED <<server, call, vtxos, game_results, rowWriter, nonceVars, rec, cli, history>>

MonWinnerIndividual ==
    /\ mon.pc = "dust_row"
    /\ \E fail \in BOOLEAN :
          InsertRow(WinnerRow(Head(mon.dust_winners), mon.txid),
                    Writer("monitor", mon.passes,
                           MonExec(Head(mon.dust_winners).outpoint.txid)), fail)
    /\ mon' = Broadcasting(Continue([mon EXCEPT !.dust_winners = Tail(@),
                                                !.retry_count = 0,
                                                !.txid = None]),
                           Len(game_results') > Len(game_results),
                           Head(mon.dust_winners), mon.txid)
    /\ UNCHANGED <<server, call, vtxos, own_transactions, nonceVars, rec, cli, history>>

\* One call of send in process_regular_batch_winners.
MonSendBatch ==
    /\ mon.pc = "batch_send"
    /\ \E ok \in SendOutcomes :
         LET s == SendRecord("monitor", mon.passes, MonExec("batch"),
                             WinnerOutputs(mon.regular_winners), ok)
         IN /\ sends' = sends \cup {s}
            /\ mon' = IF ok
                      THEN [mon EXCEPT !.sending = FALSE, !.pc = "batch_own", !.txid = s.txid]
                      ELSE IF RetriesExhausted(mon.retry_count + 1)
                      THEN [mon EXCEPT !.sending = FALSE, !.pc = "batch_rows", !.txid = None,
                                       !.retry_count = @ + 1]
                      ELSE [mon EXCEPT !.sending = FALSE, !.retry_count = @ + 1]
    /\ UNCHANGED <<server, call, vtxos, ledger, nonceVars, rec, cli, classified, evaluated>>

MonOwnBatch ==
    /\ mon.pc = "batch_own"
    /\ \E fail \in BOOLEAN :
          InsertOwn(Unwrap(mon.txid), "batch_payout", fail)
    /\ mon' = [mon EXCEPT !.pc = "batch_rows"]
    /\ UNCHANGED <<server, call, vtxos, game_results, rowWriter, nonceVars, rec, cli, history>>

\* process_winner_result for the next winner of the batch.
MonWinnerBatch ==
    /\ mon.pc = "batch_rows"
    /\ \E fail \in BOOLEAN :
          InsertRow(WinnerRow(Head(mon.regular_winners), mon.txid),
                    Writer("monitor", mon.passes, MonExec("batch")), fail)
    /\ LET rest == [mon EXCEPT !.regular_winners = Tail(@)]
       IN mon' = Broadcasting(
                    IF rest.regular_winners # <<>> THEN rest
                    ELSE Continue([rest EXCEPT !.retry_count = 0,
                                               !.txid = None]),
                    Len(game_results') > Len(game_results),
                    Head(mon.regular_winners), mon.txid)
    /\ UNCHANGED <<server, call, vtxos, own_transactions, nonceVars, rec, cli, history>>

MonLoser ==
    /\ mon.pc = "loser"
    /\ \E fail \in BOOLEAN :
          InsertRow(LoserRow(Head(mon.losers)),
                    Writer("monitor", mon.passes, ""), fail)
    /\ mon' = Broadcasting(Continue([mon EXCEPT !.losers = Tail(@)]),
                           Len(game_results') > Len(game_results),
                           Head(mon.losers), None)
    /\ UNCHANGED <<server, call, vtxos, own_transactions, nonceVars, rec, cli, history>>

\* broadcast_game_result, with the hash of the nonce that is current now.
MonBroadcast ==
    /\ mon.pc = "broadcast"
    /\ LET item == Unwrap(mon.game_item)
       IN emitted' = emitted \cup
             {Emitted("broadcast",
                      GameHistoryItem("latest", item.input_tx_id, item.is_win,
                                      item.output_tx_id, item.nonce,
                                      get_current_nonce_hash))}
    /\ mon' = [mon EXCEPT !.pc = mon.resume, !.resume = "", !.game_item = None]
    /\ UNCHANGED <<web, call, vtxos, ledger, nonceVars, rec, cli, history>>

(***************************************************************************)
(* server.rs: get_games and the start of handle_websocket.  Both read the  *)
(* newest rows of the ledger and make an item of each: the nonce of the    *)
(* row when it is revealable, with its hash; otherwise no nonce, with the  *)
(* hash of the current nonce, which is read in a later step.               *)
(***************************************************************************)
HistoryPageSize == 20

\* db.rs, get_game_results_paginated: the first page, the newest row first.
get_game_results_paginated(rows, page_size) ==
    LET n == IF Len(rows) < page_size THEN Len(rows) ELSE page_size
    IN [i \in 1..n |-> rows[Len(rows) + 1 - i]]

WebNext(w) ==
    IF Tail(w.rows) = <<>> THEN WebIdle(w.n)
    ELSE [w EXCEPT !.pc = "check", !.rows = Tail(@)]

HistoryItem(game, revealable_nonce, nonce_hash) ==
    GameHistoryItem(ToString(game.id), game.input_tx_id, game.is_winner,
                    game.output_tx_id, revealable_nonce, nonce_hash)

WebStart ==
    /\ web.pc = "idle"
    /\ web.n < MaxRequests
    /\ \E channel \in {"games", "history"}, fail \in BOOLEAN :
         LET games == get_game_results_paginated(game_results, HistoryPageSize)
         IN /\ MayFail(fail)
            /\ dbErrors' = CountFail(fail)
            /\ web' = IF fail \/ games = <<>> THEN WebIdle(web.n + 1)
                      ELSE [pc |-> "check", n |-> web.n + 1,
                            channel |-> channel, rows |-> games]
    /\ UNCHANGED <<emitted, call, vtxos, game_results, own_transactions,
                   rowWriter, nonceVars, mon, rec, cli, history>>

\* get_revealable_nonce for the next row; the item when it is revealable.
WebCheck ==
    /\ web.pc = "check"
    /\ LET game == Head(web.rows)
           revealable_nonce == get_revealable_nonce(game.nonce)
       IN IF revealable_nonce # None
          THEN /\ emitted' = emitted \cup
                     {Emitted(web.channel,
                              HistoryItem(game, revealable_nonce,
                                          Sha256Hex(game.nonce)))}
               /\ web' = WebNext(web)
          ELSE /\ web' = [web EXCEPT !.pc = "hash"]
               /\ UNCHANGED emitted
    /\ UNCHANGED <<call, vtxos, ledger, nonceVars, mon, rec, cli, history>>

\* get_current_nonce_hash for a row whose nonce was not revealable.
WebHash ==
    /\ web.pc = "hash"
    /\ emitted' = emitted \cup
          {Emitted(web.channel,
                   HistoryItem(Head(web.rows), None, get_current_nonce_hash))}
    /\ web' = WebNext(web)
    /\ UNCHANGED <<call, vtxos, ledger, nonceVars, mon, rec, cli, history>>

(***************************************************************************)
(* recovery.rs: process_missed_games.                                      *)
(***************************************************************************)
\* The game address whose p2tr or sub-dust script the outpoint pays to.
FindGame(script) ==
    LET found == {m \in Multipliers :
                    \/ script = to_p2tr_script_pubkey(GameAddress(m))
                    \/ script = to_sub_dust_script_pubkey(GameAddress(m))}
    IN IF found = {} THEN None ELSE Some(CHOOSE m \in found : TRUE)

\* The skips of the loop before get_parent_vtxo is called.
MissedGameCandidate(rows, own, vtxo) ==
    /\ ~is_transaction_processed(rows, vtxo.txid)
    /\ ~is_own_transaction(own, vtxo.txid)
    /\ FindGame(vtxo.script) # None

\* Variant: the winner is recorded as paid.
MissedGameRow_WinnerPaid(vtxo, nonce) ==
    LET multiplier == Unwrap(FindGame(vtxo.script))
        sender == FirstSender(vtxo.parents)
        input_amount == vtxo.amount
        donation_threshold == (max_payout_sats * 100) \div multiplier
        evaluation == evaluate(nonce, vtxo.txid, multiplier)
    IN IF sender = None THEN None
       ELSE IF input_amount > donation_threshold
       THEN Some(GameRow(nonce, -1, vtxo.txid, None, input_amount, None,
                         Unwrap(sender), FALSE, FALSE, multiplier))
       ELSE IF evaluation.is_win
       THEN Some(GameRow(nonce, evaluation.rolled_value, vtxo.txid, None,
                         input_amount,
                         Some(PayoutAmount(input_amount,
                                           Unwrap(evaluation.payout_multiplier))),
                         Unwrap(sender), TRUE, TRUE, multiplier))
       ELSE Some(GameRow(nonce, evaluation.rolled_value, vtxo.txid, None,
                         input_amount, None, Unwrap(sender), FALSE, TRUE,
                         multiplier))

\* The row process_missed_games records for a new game, None when no
\* external sender is found.
MissedGameRow(vtxo, nonce) ==
    LET multiplier == Unwrap(FindGame(vtxo.script))
        sender == FirstSender(vtxo.parents)
        input_amount == vtxo.amount
        donation_threshold == (max_payout_sats * 100) \div multiplier
        evaluation == evaluate(nonce, vtxo.txid, multiplier)
    IN IF sender = None THEN None
       ELSE IF input_amount > donation_threshold
       THEN Some(GameRow(nonce, -1, vtxo.txid, None, input_amount, None,
                         Unwrap(sender), FALSE, FALSE, multiplier))
       ELSE IF evaluation.is_win
       THEN Some(GameRow(nonce, evaluation.rolled_value, vtxo.txid, None,
                         input_amount,
                         Some(PayoutAmount(input_amount,
                                           Unwrap(evaluation.payout_multiplier))),
                         Unwrap(sender), TRUE, FALSE, multiplier))
       ELSE Some(GameRow(nonce, evaluation.rolled_value, vtxo.txid, None,
                         input_amount, None, Unwrap(sender), FALSE, TRUE,
                         multiplier))

\* The procedure of the command has returned: Ok when error is "", else
\* the error; the process has not exited yet.
Returned(r, command, error) ==
    [RecIdle(r.runs) EXCEPT !.pc = "returned", !.command = command,
                            !.result = IF error = "" THEN "Ok" ELSE "Err",
                            !.error = error,
                            !.failed_payouts = r.failed_payouts,
                            !.dry_run = r.dry_run]

\* The end of process_missed_payouts: an error when a payout failed.
\* Variant: one failed payout is let pass.
PayoutsResult_OneAllowed(failed_payouts) ==
    IF failed_payouts > 1 THEN "retry payouts failed" ELSE ""

PayoutsResult(failed_payouts) ==
    IF failed_payouts > 0 THEN "retry payouts failed" ELSE ""

\* The end of the loops of the two procedures.
\* Variant: the loop over the winners ends at the first failed payout.
RecDone_EndsOnFailure(r) ==
    IF r.pc = "g_check" /\ r.snapshot = <<>>
    THEN Returned(r, "missed_games", "")
    ELSE IF r.pc = "p_send" /\ (r.unpaid_winners = <<>> \/ r.failed_payouts > 0)
    THEN Returned(r, "missed_payouts", PayoutsResult(r.failed_payouts))
    ELSE r

RecDone(r) ==
    IF r.pc = "g_check" /\ r.snapshot = <<>>
    THEN Returned(r, "missed_games", "")
    ELSE IF r.pc = "p_send" /\ r.unpaid_winners = <<>>
    THEN Returned(r, "missed_payouts", PayoutsResult(r.failed_payouts))
    ELSE r

\* The number of the current run of process p among the runs of all the
\* processes: 11, 12, ... for the first process, 21, 22, ... for the second.
RecRun(p) == 10 * p + rec[p].runs

\* A command that is started runs in the first process that is idle.
FirstIdle(p) ==
    /\ rec[p].pc = "idle"
    /\ \A q \in RecoveryProcs : q < p => rec[q].pc # "idle"

\* With dry_run the procedures log what they would do.
\* Variant: dry_run is ignored.
WritesLedger_Always(dry_run) == TRUE

WritesLedger(dry_run) == ~dry_run

\* ark-cli.rs, Commands::CatchupMissedGames: the command makes a nonce
\* service of its own, whose nonce is drawn anew and whose row is inserted
\* (a failure of the insert is only logged), and calls
\* process_missed_games, which lists the outpoints of the game addresses.
StartGames(p, dry_run, fail) ==
    /\ FirstIdle(p)
    /\ Activity < MaxActivity
    /\ \E nonce \in RecoveryNonces :
         /\ MayFail(fail)
         /\ nonces' = IF fail THEN nonces ELSE nonces \cup {NonceRow(nonce)}
         /\ dbErrors' = CountFail(fail)
         /\ rec' = [rec EXCEPT ![p] =
                      RecDone([RecIdle(rec[p].runs + 1) EXCEPT
                                  !.pc = "g_check", !.nonce = nonce,
                                  !.dry_run = dry_run,
                                  !.snapshot = ListOf(vtxos)])]
    /\ UNCHANGED <<server, call, vtxos, game_results, own_transactions,
                   rowWriter, current_nonce, rotations, rot, mon, cli, history>>

RecStartGames(p) == StartGames(p, FALSE, FALSE)

RecStartGamesDry(p) == StartGames(p, TRUE, FALSE)

\* The insert of the row of the nonce fails.
RecStartGamesNoRow(p) == \E dry_run \in BOOLEAN : StartGames(p, dry_run, TRUE)

\* One iteration of the loop over the outpoints: the skips, the evaluation
\* and the insert of the row.
RecGame(p) ==
    /\ rec[p].pc = "g_check"
    /\ LET vtxo == Head(rec[p].snapshot)
           row == MissedGameRow(vtxo, rec[p].nonce)
           new_game == /\ MissedGameCandidate(game_results, own_transactions, vtxo)
                       /\ row # None
       IN IF new_game /\ WritesLedger(rec[p].dry_run)
          THEN /\ \E fail \in BOOLEAN :
                     InsertRow(Unwrap(row),
                               Writer("missed_games", RecRun(p), ""), fail)
               /\ classified' = classified \cup
                     {ClassifiedBy("missed_games", RecRun(p), vtxo, TRUE)}
               /\ evaluated' = IF Unwrap(row).rolled_number = -1 THEN evaluated
                               ELSE evaluated \cup
                                      {EvaluatedBy("missed_games", vtxo)}
          ELSE /\ classified' = IF rec[p].dry_run THEN classified
                                ELSE classified \cup
                                   {ClassifiedBy("missed_games", RecRun(p), vtxo,
                                                 FALSE)}
               /\ UNCHANGED <<ledger, evaluated>>
    /\ rec' = [rec EXCEPT ![p] = RecDone([rec[p] EXCEPT !.snapshot = Tail(@)])]
    /\ UNCHANGED <<server, call, vtxos, own_transactions, nonceVars, mon, cli, sends>>

\* get_parent_vtxo returns an error: process_missed_games returns it.
RecGameErr(p) ==
    /\ rec[p].pc = "g_check"
    /\ MissedGameCandidate(game_results, own_transactions, Head(rec[p].snapshot))
    /\ rec' = [rec EXCEPT ![p] = Returned(rec[p], "missed_games", "get_parent_vtxo")]
    /\ UNCHANGED <<server, call, vtxos, ledger, nonceVars, mon, cli, history>>

(***************************************************************************)
(* recovery.rs: process_missed_payouts.                                    *)
(***************************************************************************)
RecExec(p, winner) == "r" \o ToString(RecRun(p)) \o ":" \o ToString(winner.id)

\* The condition of the retry loop of process_missed_payouts.
RetryAllowed(retry_count) == retry_count < MAX_RETRIES

RowPayout(winner) ==
    IF winner.winning_amount = None THEN 0 ELSE Unwrap(winner.winning_amount)

\* The start of process_missed_payouts: the unpaid winners are read; an
\* error of the read is returned.  With dry_run the loop over the winners
\* only logs, and the procedure returns Ok at once.
StartPayouts(p, dry_run, fail) ==
    /\ FirstIdle(p)
    /\ rec[p].after_games \/ Activity < MaxActivity
    /\ MayFail(fail)
    /\ dbErrors' = CountFail(fail)
    /\ LET runs == IF rec[p].after_games THEN rec[p].runs ELSE rec[p].runs + 1
           started == [RecIdle(runs) EXCEPT !.pc = "p_send",
                                           !.dry_run = dry_run]
       IN rec' = [rec EXCEPT ![p] =
                IF fail THEN Returned(started, "missed_payouts", "get_unpaid_winners")
                ELSE IF ~WritesLedger(dry_run)
                THEN Returned(started, "missed_payouts", "")
                ELSE RecDone([started EXCEPT !.unpaid_winners =
                                 get_unpaid_winners(game_results)])]
    /\ UNCHANGED <<server, call, vtxos, game_results, own_transactions,
                   rowWriter, nonceVars, mon, cli, history>>

RecStartPayouts(p) == StartPayouts(p, FALSE, FALSE)

RecStartPayoutsDry(p) == StartPayouts(p, TRUE, FALSE)

\* The read of the unpaid winners fails.
RecStartPayoutsErr(p) == \E dry_run \in BOOLEAN : StartPayouts(p, dry_run, TRUE)

\* sync_spendable_vtxos returns an error in the retry loop:
\* process_missed_payouts returns it.
RecPaySyncErr(p) ==
    /\ rec[p].pc = "p_send"
    /\ MayFail(TRUE)
    /\ dbErrors' = CountFail(TRUE)
    /\ rec' = [rec EXCEPT ![p] =
                  Returned(rec[p], "missed_payouts", "sync_spendable_vtxos")]
    /\ UNCHANGED <<server, call, vtxos, game_results, own_transactions,
                   rowWriter, nonceVars, mon, cli, history>>

\* One call of send_vtxo in the retry loop.
RecPaySend(p) ==
    /\ rec[p].pc = "p_send"
    /\ LET winner == Head(rec[p].unpaid_winners)
       IN \E ok \in SendOutcomes :
            LET s == SendRecord("missed_payouts", RecRun(p), RecExec(p, winner),
                                {Output(winner.input_tx_id, winner.player_address,
                                        RowPayout(winner))}, ok)
            IN /\ sends' = sends \cup {s}
               /\ rec' = [rec EXCEPT ![p] =
                     IF ok
                     THEN [rec[p] EXCEPT !.sending = FALSE, !.pc = "p_own", !.txid = s.txid]
                     ELSE IF RetryAllowed(rec[p].retry_count + 1)
                     THEN [rec[p] EXCEPT !.sending = FALSE, !.retry_count = @ + 1]
                     ELSE RecDone([rec[p] EXCEPT !.sending = FALSE, !.unpaid_winners = Tail(@),
                                                 !.retry_count = 0,
                                                 !.failed_payouts = @ + 1])]
    /\ UNCHANGED <<server, call, vtxos, ledger, nonceVars, mon, cli, classified, evaluated>>

RecPayOwn(p) ==
    /\ rec[p].pc = "p_own"
    /\ \E fail \in BOOLEAN :
          InsertOwn(Unwrap(rec[p].txid), "retry_payout", fail)
    /\ rec' = [rec EXCEPT ![p] = [rec[p] EXCEPT !.pc = "p_mark"]]
    /\ UNCHANGED <<server, call, vtxos, game_results, rowWriter, nonceVars, mon, cli, history>>

RecPayMark(p) ==
    /\ rec[p].pc = "p_mark"
    /\ \E fail \in BOOLEAN :
         /\ MayFail(fail)
         /\ game_results' =
               mark_payment_successful(game_results, Head(rec[p].unpaid_winners).id,
                                       Unwrap(rec[p].txid), fail)
         /\ dbErrors' = CountFail(fail)
    /\ rec' = [rec EXCEPT ![p] =
                  RecDone([rec[p] EXCEPT !.pc = "p_send",
                                         !.unpaid_winners = Tail(@),
                                         !.retry_count = 0, !.txid = None])]
    /\ UNCHANGED <<server, call, vtxos, own_transactions, rowWriter, nonceVars, mon, cli, history>>

\* ark-cli.rs: the command has returned and the process exits.  A session
\* is catchup-missed-games followed, when it returned Ok, by
\* catchup-missed-payouts.
RecExit(p) ==
    /\ rec[p].pc = "returned"
    /\ rec' = [rec EXCEPT ![p] =
                  [RecIdle(rec[p].runs) EXCEPT !.after_games =
                      /\ rec[p].command = "missed_games"
                      /\ rec[p].result = "Ok"
                      /\ ~rec[p].dry_run]]
    /\ UNCHANGED <<server, call, vtxos, ledger, nonceVars, mon, cli, history>>

(***************************************************************************)
(* The system: the monitoring task, one recovery command at a time, manual *)
(* sends, the nonce rotation and the players run concurrently.             *)
(***************************************************************************)
Next ==
    \/ Deposit
    \/ RotateInsert
    \/ RotateWrite
    \/ CliSend
    \/ CliInsertOwn
    \/ MonStart
    \/ MonClassify
    \/ MonEvaluateErr
    \/ MonDonation
    \/ MonSendIndividual
    \/ MonOwnIndividual
    \/ MonWinnerIndividual
    \/ MonSendBatch
    \/ MonOwnBatch
    \/ MonWinnerBatch
    \/ MonLoser
    \/ MonBroadcast
    \/ RecStartGames(1)
    \/ RecGame(1)
    \/ RecGameErr(1)
    \/ RecStartPayouts(1)
    \/ RecPaySend(1)
    \/ RecPayOwn(1)
    \/ RecPayMark(1)
    \/ RecExit(1)

Spec == Init /\ [][Next]_vars

(***************************************************************************)
(* Recovery commands run at the same time: the players, the monitoring     *)
(* task and the processes of two recovery commands.                        *)
(***************************************************************************)
\* The recovery commands on their own, one at a time, with and without
\* dry_run, the failures of their reads and of the wallet sync included.
NextCommands ==
    \/ Deposit
    \/ RecStartGames(1)
    \/ RecStartGamesDry(1)
    \/ RecStartGamesNoRow(1)
    \/ RecGame(1)
    \/ RecGameErr(1)
    \/ RecStartPayouts(1)
    \/ RecStartPayoutsDry(1)
    \/ RecStartPayoutsErr(1)
    \/ RecPaySyncErr(1)
    \/ RecPaySend(1)
    \/ RecPayOwn(1)
    \/ RecPayMark(1)
    \/ RecExit(1)

SpecCommands == Init /\ [][NextCommands]_vars

(***************************************************************************)
(* A crash of the server between a payout and its row.  The process ends   *)
(* while the pass holds the txid send_vtxo returned and has not yet        *)
(* written the rows of the winners it paid; what the pass held is lost.    *)
(* The server is started again: spawn_nonce_service draws a new nonce and  *)
(* inserts its row, and the monitoring task sleeps before its next pass.   *)
(* The deposits whose payout was in flight and the number of recovery runs *)
(* started before the crash are noted in the idle state of the task.       *)
(***************************************************************************)
InFlight(m) ==
    IF m.pc \in {"dust_own", "dust_row"} /\ m.txid # None
    THEN {Head(m.dust_winners).outpoint.txid}
    ELSE IF m.pc \in {"batch_own", "batch_rows"} /\ m.txid # None
    THEN {m.regular_winners[i].outpoint.txid :
             i \in 1..Len(m.regular_winners)}
    ELSE {}

Crash ==
    /\ InFlight(mon) # {}
    /\ mon' = [MonIdle(mon.passes) EXCEPT !.lost = InFlight(mon),
                                          !.lost_at = rec[1].runs]
    /\ \E nonce \in NonceValues \ {current_nonce} :
          /\ current_nonce' = nonce
          /\ nonces' = nonces \cup {NonceRow(nonce)}
    /\ rot' = RotIdle
    /\ UNCHANGED <<server, call, vtxos, ledger, rotations, rec, cli, history>>

NextCrash ==
    \/ Deposit
    \/ MonStart
    \/ MonClassify
    \/ MonEvaluateErr
    \/ MonDonation
    \/ MonSendIndividual
    \/ MonOwnIndividual
    \/ MonWinnerIndividual
    \/ MonSendBatch
    \/ MonOwnBatch
    \/ MonWinnerBatch
    \/ MonLoser
    \/ MonBroadcast
    \/ Crash
    \/ RecStartGames(1)
    \/ RecGame(1)
    \/ RecGameErr(1)
    \/ RecStartPayouts(1)
    \/ RecPaySend(1)
    \/ RecPayOwn(1)
    \/ RecPayMark(1)
    \/ RecExit(1)

SpecCrash == Init /\ [][NextCrash]_vars

(***************************************************************************)
(* The monitoring loop alone, its feed of the deposits allowed to fail.    *)
(* The monitoring task gets the deposits                                   *)
(* by listing the spendable outpoints of the game addresses at the start   *)
(* of each pass (get_subscription of client.rs has no caller).  When the   *)
(* listing returns an error check_for_new_transactions returns it, and     *)
(* start_monitoring logs it, sleeps and goes on with the next pass.        *)
(***************************************************************************)
MonListErr ==
    /\ mon.pc = "sleep"
    /\ Activity < MaxActivity
    /\ MayFail(TRUE)
    /\ dbErrors' = CountFail(TRUE)
    /\ mon' = [MonIdle(mon.passes + 1) EXCEPT
                  !.last_error = "spendable_game_vtxos"]
    /\ UNCHANGED <<server, call, vtxos, game_results, own_transactions,
                   rowWriter, nonceVars, rec, cli, history>>

NextMonitor ==
    \/ Deposit
    \/ MonListErr
    \/ MonStart
    \/ MonClassify
    \/ MonEvaluateErr
    \/ MonDonation
    \/ MonSendIndividual
    \/ MonOwnIndividual
    \/ MonWinnerIndividual
    \/ MonSendBatch
    \/ MonOwnBatch
    \/ MonWinnerBatch
    \/ MonLoser
    \/ MonBroadcast

SpecMonitor == Init /\ [][NextMonitor]_vars

(***************************************************************************)
(* The calls of send_vtxo in time.  A call is made and, in a later step,   *)
(* returns: between the two it is in flight.  The monitoring task awaits   *)
(* each call inside its loop; process_missed_payouts awaits each call      *)
(* inside its retry loop, in the process of the recovery command.          *)
(***************************************************************************)
MonCallSend ==
    /\ mon.pc \in {"dust_send", "batch_send"}
    /\ ~mon.sending
    /\ mon' = [mon EXCEPT !.sending = TRUE]
    /\ UNCHANGED <<server, call, vtxos, ledger, nonceVars, rec, cli, history>>

MonSendIndividualReturns ==
    /\ mon.sending
    /\ MonSendIndividual

MonSendBatchReturns ==
    /\ mon.sending
    /\ MonSendBatch

RecCallSend(p) ==
    /\ rec[p].pc = "p_send"
    /\ ~rec[p].sending
    /\ rec' = [rec EXCEPT ![p] = [rec[p] EXCEPT !.sending = TRUE]]
    /\ UNCHANGED <<server, call, vtxos, ledger, nonceVars, mon, cli, history>>

RecPaySendReturns(p) ==
    /\ rec[p].sending
    /\ RecPaySend(p)

NextSends ==
    \/ Deposit
    \/ MonStart
    \/ MonClassify
    \/ MonEvaluateErr
    \/ MonDonation
    \/ MonCallSend
    \/ MonSendIndividualReturns
    \/ MonOwnIndividual
    \/ MonWinnerIndividual
    \/ MonSendBatchReturns
    \/ MonOwnBatch
    \/ MonWinnerBatch
    \/ MonLoser
    \/ MonBroadcast
    \/ RecStartGames(1)
    \/ RecGame(1)
    \/ RecGameErr(1)
    \/ RecStartPayouts(1)
    \/ RecCallSend(1)
    \/ RecPaySendReturns(1)
    \/ RecPayOwn(1)
    \/ RecPayMark(1)
    \/ RecExit(1)

SpecSends == Init /\ [][NextSends]_vars

(***************************************************************************)
(* The manual wallet commands beside the players and the monitoring task.  *)
(***************************************************************************)
NextWallet ==
    \/ Deposit
    \/ CliSend
    \/ CliSettle
    \/ CliInsertOwn
    \/ MonStart
    \/ MonClassify
    \/ MonEvaluateErr
    \/ MonDonation
    \/ MonSendIndividual
    \/ MonOwnIndividual
    \/ MonWinnerIndividual
    \/ MonSendBatch
    \/ MonOwnBatch
    \/ MonWinnerBatch
    \/ MonLoser
    \/ MonBroadcast

SpecWallet == Init /\ [][NextWallet]_vars

\* The monitoring task, the generation task of the nonce service and the
\* requests for the history of the games.
NextServer ==
    \/ Deposit
    \/ RotateInsert
    \/ RotateWrite
    \/ MonStart
    \/ MonClassify
    \/ MonEvaluateErr
    \/ MonDonation
    \/ MonSendIndividual
    \/ MonOwnIndividual
    \/ MonWinnerIndividual
    \/ MonSendBatch
    \/ MonOwnBatch
    \/ MonWinnerBatch
    \/ MonLoser
    \/ MonBroadcast
    \/ WebStart
    \/ WebCheck
    \/ WebHash

SpecServer == Init /\ [][NextServer]_vars

NextRecovery ==
    \/ Deposit
    \/ MonStart
    \/ MonClassify
    \/ MonEvaluateErr
    \/ MonDonation
    \/ MonSendIndividual
    \/ MonOwnIndividual
    \/ MonWinnerIndividual
    \/ MonSendBatch
    \/ MonOwnBatch
    \/ MonWinnerBatch
    \/ MonLoser
    \/ MonBroadcast
    \/ \E p \in RecoveryProcs : RecStartGames(p)
    \/ \E p \in RecoveryProcs : RecGame(p)
    \/ \E p \in RecoveryProcs : RecGameErr(p)
    \/ \E p \in RecoveryProcs : RecStartPayouts(p)
    \/ \E p \in RecoveryProcs : RecPaySend(p)
    \/ \E p \in RecoveryProcs : RecPayOwn(p)
    \/ \E p \in RecoveryProcs : RecPayMark(p)
    \/ \E p \in RecoveryProcs : RecExit(p)

SpecRecovery == Init /\ [][NextRecovery]_vars

TypeOK ==
    /\ mon.pc \in {"sleep", "classify", "donation", "dust_send", "dust_own",
                   "dust_row", "batch_send", "batch_own", "batch_rows", "loser",
                   "broadcast"}
    /\ \A p \in RecoveryProcs :
          rec[p].pc \in {"idle", "g_check", "p_send", "p_own", "p_mark",
                         "returned"}
    /\ rot.pc \in {"sleep", "write"}
    /\ web.pc \in {"idle", "check", "hash"}
    /\ \A e \in emitted : e.channel \in {"broadcast", "games", "history"}
    /\ Len(rowWriter) = Len(game_results)
    /\ \A i \in 1..Len(game_results) : game_results[i].id = i

(***************************************************************************)
(* The settlement of one bet: a single deposit at any game address, of an  *)
(* amount within BetWindow of the least amount (1) or of the least amount  *)
(* that is a donation (the donation threshold plus one), under a nonce     *)
(* whose roll for the deposit (61) wins at every address.  The bet is      *)
(* settled by a monitoring pass, or by process_missed_games followed by    *)
(* process_missed_payouts, with no failure of a send or of a ledger write. *)
(***************************************************************************)
WinningNonce == 2628

BetAmounts(m) ==
    LET donation == get_donation_threshold(m) + 1
    IN {amount \in (1..BetWindow) \cup ((donation - BetWindow)..donation) :
           amount >= 1 /\ amount <= donation}

Bet(m, amount) ==
    Vtxo("ab", amount, m, to_p2tr_script_pubkey(GameAddress(m)), <<"alice">>)

InitPayout ==
    /\ \E m \in Multipliers : \E amount \in BetAmounts(m) :
          vtxos = {Bet(m, amount)}
    /\ game_results = <<>>
    /\ own_transactions = {}
    /\ current_nonce = WinningNonce
    /\ nonces = {NonceRow(current_nonce)}
    /\ rotations = 0
    /\ rot = RotIdle
    /\ web = WebIdle(0)
    /\ emitted = {}
    /\ args = None
    /\ ret = None
    /\ mon = MonIdle(0)
    /\ rec = [p \in RecoveryProcs |-> RecIdle(0)]
    /\ cli = CliIdle(0)
    /\ sends = {}
    /\ classified = {}
    /\ evaluated = {}
    /\ rowWriter = <<>>
    /\ dbErrors = 0

\* check_for_new_transactions for the deposit: evaluate_game, then the send
\* and the row of process_batch_results.
BetMonitor ==
    /\ game_results = <<>>
    /\ \E outpoint \in vtxos :
         LET result == Unwrap(evaluate_game(outpoint.multiplier, outpoint,
                                            current_nonce))
             arm == Classify(result)
             exec == IF IsDustWinner(result) THEN MonExec(outpoint.txid)
                     ELSE MonExec("batch")
             s == SendRecord("monitor", mon.passes, exec,
                             {WinnerOutput(result)}, TRUE)
         IN IF arm = "winner"
            THEN /\ sends' = sends \cup {s}
                 /\ own_transactions' =
                       insert_own_transaction(own_transactions, Unwrap(s.txid),
                                              "batch_payout", FALSE)
                 /\ InsertRow(WinnerRow(result, s.txid),
                              Writer("monitor", mon.passes, exec), FALSE)
                 /\ emitted' = emitted \cup
                       {Emitted("broadcast",
                          GameHistoryItem("latest", outpoint.txid, TRUE, s.txid,
                            get_revealable_nonce(to_string(result.current_nonce)),
                            get_current_nonce_hash))}
            ELSE /\ InsertRow(IF arm = "donation" THEN DonationRow(result)
                              ELSE LoserRow(result),
                              Writer("monitor", mon.passes, ""), FALSE)
                 /\ emitted' = IF arm = "donation" THEN emitted
                               ELSE emitted \cup
                       {Emitted("broadcast",
                          GameHistoryItem("latest", outpoint.txid, FALSE, None,
                            get_revealable_nonce(to_string(result.current_nonce)),
                            get_current_nonce_hash))}
                 /\ UNCHANGED <<sends, own_transactions>>
    /\ UNCHANGED <<web, call, vtxos, nonceVars, mon, rec, cli, classified, evaluated>>

\* process_missed_games for the deposit.
BetMissedGames ==
    /\ game_results = <<>>
    /\ \E vtxo \in vtxos :
         InsertRow(Unwrap(MissedGameRow(vtxo, current_nonce)),
                   Writer("missed_games", RecRun(1), ""), FALSE)
    /\ UNCHANGED <<server, call, vtxos, own_transactions, nonceVars, mon, rec, cli, history>>

\* process_missed_payouts for the winner process_missed_games recorded.
BetMissedPayouts ==
    /\ get_unpaid_winners(game_results) # <<>>
    /\ LET winner == Head(get_unpaid_winners(game_results))
           s == SendRecord("missed_payouts", RecRun(1), RecExec(1, winner),
                           {Output(winner.input_tx_id, winner.player_address,
                                   RowPayout(winner))}, TRUE)
       IN /\ sends' = sends \cup {s}
          /\ own_transactions' =
                insert_own_transaction(own_transactions, Unwrap(s.txid),
                                       "retry_payout", FALSE)
          /\ game_results' = mark_payment_successful(game_results, winner.id,
                                                     Unwrap(s.txid), FALSE)
    /\ UNCHANGED <<server, call, vtxos, rowWriter, dbErrors, nonceVars, mon, rec, cli,
                   classified, evaluated>>

NextPayout ==
    \/ BetMonitor
    \/ BetMissedGames
    \/ BetMissedPayouts

SpecPayout == InitPayout /\ [][NextPayout]_vars

(***************************************************************************)
(* Properties of the settlement pipeline.                                  *)
(***************************************************************************)
RowIds == 1..Len(game_results)

\* The deposits a send pays out for, and the sends that pay for a deposit.
Deposits(s) == {o.deposit : o \in s.outputs}
SendsFor(tx_id) == {s \in sends : tx_id \in Deposits(s)}

\* max_payout_sats * 100 / ratio, integer division.
DonationCap(m) == (max_payout_sats * 100) \div m

\* C1: in every reachable state the game ledger holds at most one row per
\* input_tx_id, whatever the interleaving of monitoring passes,
\* process_missed_games and process_missed_payouts, and also when the same
\* deposit is delivered again.
C1_AtMostOneRowPerInputTxId ==
    \A i, j \in RowIds :
        game_results[i].input_tx_id = game_results[j].input_tx_id => i = j

\* The monitoring pass and process_missed_games both let the same deposit
\* through, both have finished, no write failed in the store, and the ledger
\* holds the deposit's row: the second insert was rejected.
C1_Witness ==
    /\ mon.pc = "sleep" /\ \A p \in RecoveryProcs : rec[p].pc = "idle" /\ dbErrors = 0
    /\ \E c1, c2 \in classified :
          /\ c1.by = "monitor" /\ c2.by = "missed_games"
          /\ c1.txid = c2.txid /\ c1.let_through /\ c2.let_through
          /\ is_transaction_processed(game_results, c1.txid)

\* C2: when recovery runs while the monitoring loop is live, with no crash
\* and no ledger failure, every winning deposit receives at most one
\* successful payout send, whatever the interleaving of the two tasks.
C2_AtMostOneSuccessfulPayout ==
    dbErrors = 0 =>
        \A v \in vtxos :
            Cardinality({s \in SendsFor(v.txid) : s.ok}) <= 1

C4_OutputTxIdIsOwnTransaction ==
    \A i \in RowIds :
        IsSome(game_results[i].output_tx_id) =>
            is_own_transaction(own_transactions,
                               Unwrap(game_results[i].output_tx_id))

\* C5: a step that inserts a game row carrying a payout txid, or that sets
\* the output_tx_id of a row, finds the txid already recorded in
\* own_transactions: the own-transaction insert happened before.
C5_OwnInsertHappenedBefore ==
    [][\A i \in 1..Len(game_results') :
          (/\ IsSome(game_results'[i].output_tx_id)
           /\ \/ i > Len(game_results)
              \/ game_results[i].output_tx_id # game_results'[i].output_tx_id)
          => is_own_transaction(own_transactions,
                                Unwrap(game_results'[i].output_tx_id))]_vars

\* C6: an outpoint whose txid is recorded in own_transactions when it is
\* classified is dropped, by the monitoring pass and by process_missed_games
\* alike: every row they write and every payout the pass sends is for an
\* outpoint that was let through while it was not an own transaction.
C6_OwnTransactionIsDropped ==
    /\ \A c \in classified : c.wasOwn => ~c.let_through
    /\ \A i \in RowIds :
          \E c \in classified :
              /\ c.by = rowWriter[i].by /\ c.run = rowWriter[i].run
              /\ c.txid = game_results[i].input_tx_id
              /\ c.let_through /\ ~c.wasOwn
    /\ \A s \in sends : s.by = "monitor" =>
          \A tx_id \in Deposits(s) :
              \E c \in classified :
                  /\ c.by = "monitor" /\ c.run = s.run /\ c.txid = tx_id
                  /\ c.let_through /\ ~c.wasOwn

\* The echo of a manual send, recorded as an own transaction, was examined
\* and dropped by the monitoring pass and by process_missed_games.
C6_Witness ==
    \E c1, c2 \in classified :
        /\ c1.by = "monitor" /\ c2.by = "missed_games"
        /\ c1.wasOwn /\ c2.wasOwn /\ ~c1.hadRow /\ ~c2.hadRow
        /\ ~c1.let_through /\ ~c2.let_through
        /\ \E v \in vtxos : v.txid = c1.txid

\* C7: when the monitoring pass writes the row of a winner, the row has
\* payment_successful = TRUE and output_tx_id = the txid a send returned if
\* and only if one of the sends of that payout execution succeeded; when all
\* of them failed the row has payment_successful = FALSE and no
\* output_tx_id, and get_unpaid_winners returns it.
C7_WinnerRowReflectsSends ==
    [][(/\ Len(game_results') = Len(game_results) + 1
        /\ rowWriter'[Len(rowWriter')].by = "monitor"
        /\ game_results'[Len(game_results')].is_winner)
       => LET row == game_results'[Len(game_results')]
              attempts == {s \in sends :
                             s.exec = rowWriter'[Len(rowWriter')].exec}
          IN /\ attempts # {}
             /\ (row.payment_successful /\ IsSome(row.output_tx_id))
                   <=> (\E s \in attempts : s.ok)
             /\ row.payment_successful =>
                   \E s \in attempts : s.ok /\ s.txid = row.output_tx_id
             /\ (\A s \in attempts : ~s.ok) =>
                   /\ ~row.payment_successful
                   /\ row.output_tx_id = None
                   /\ \E k \in 1..Len(get_unpaid_winners(game_results')) :
                         get_unpaid_winners(game_results')[k] = row]_vars

\* The monitoring pass wrote the row of a winner unpaid after MAX_RETRIES
\* failed sends.
C7_Witness ==
    \E i \in RowIds :
        /\ rowWriter[i].by = "monitor"
        /\ game_results[i].is_winner
        /\ ~game_results[i].payment_successful
        /\ game_results[i].output_tx_id = None
        /\ Attempts(rowWriter[i].exec) = MAX_RETRIES

\* C8: one execution of the payout procedure (individual or batch in the
\* monitoring pass, the retry loop of process_missed_payouts) calls send at
\* most MAX_RETRIES times and not again after a send succeeded.
C8_AtMostMaxRetriesSends ==
    \A s \in sends :
        /\ s.attempt <= MAX_RETRIES
        /\ s.ok => \A t \in sends : t.exec = s.exec => t.attempt <= s.attempt

\* A payout execution failed MAX_RETRIES times and its task has finished.
C8_Witness ==
    /\ mon.pc = "sleep" /\ \A p \in RecoveryProcs : rec[p].pc = "idle"
    /\ \E s \in sends : s.attempt = MAX_RETRIES /\ ~s.ok

\* C9: every game row with rolled_number = -1 has bet_amount >
\* max_payout_sats * 100 / multiplier (integer division), is_winner = FALSE,
\* no winning_amount and payment_successful = FALSE, whether the monitoring
\* pass or process_missed_games wrote it.
C9_DonationRow ==
    \A i \in RowIds :
        game_results[i].rolled_number = -1 =>
            /\ game_results[i].bet_amount > DonationCap(game_results[i].multiplier)
            /\ ~game_results[i].is_winner
            /\ game_results[i].winning_amount = None
            /\ ~game_results[i].payment_successful

\* process_missed_games wrote a donation row.
C9_Witness ==
    \E i \in RowIds :
        /\ game_results[i].rolled_number = -1
        /\ rowWriter[i].by = "missed_games"

\* C10: a deposit strictly above the cap max_payout_sats * 100 / ratio is
\* never treated as a bet: the evaluator is not applied to it, no send is
\* attempted for it and its row is a donation row; a deposit equal to the
\* cap is played as a bet.
C10_AboveCapIsNoBet ==
    \A v \in vtxos :
        /\ v.amount > DonationCap(v.multiplier) =>
              /\ \A e \in evaluated : e.txid # v.txid
              /\ SendsFor(v.txid) = {}
              /\ \A i \in RowIds :
                    game_results[i].input_tx_id = v.txid =>
                        /\ game_results[i].rolled_number = -1
                        /\ ~game_results[i].is_winner
                        /\ ~game_results[i].payment_successful
        /\ v.amount = DonationCap(v.multiplier) =>
              /\ \A c \in classified :
                    c.txid = v.txid /\ c.let_through =>
                        \E e \in evaluated : e.txid = v.txid /\ e.by = c.by
              /\ \A i \in RowIds :
                    game_results[i].input_tx_id = v.txid =>
                        game_results[i].rolled_number # -1

\* The monitoring pass recorded a deposit above the cap.
C10_Witness ==
    \E v \in vtxos, i \in RowIds :
        /\ v.amount > DonationCap(v.multiplier)
        /\ game_results[i].input_tx_id = v.txid
        /\ rowWriter[i].by = "monitor"

IsLoserRow(row) == ~row.is_winner /\ row.rolled_number # -1

\* C13: in every reachable state every game row with payment_successful =
\* TRUE has an output_tx_id or is not a winner, and every loser row has
\* payment_successful = TRUE and no output_tx_id.
C13_PaidRowsHaveOutput ==
    \A i \in RowIds :
        LET row == game_results[i]
        IN /\ row.payment_successful => (row.output_tx_id # None \/ ~row.is_winner)
           /\ IsLoserRow(row) => (row.payment_successful /\ row.output_tx_id = None)

\* The ledger holds a loser row and a winner row that process_missed_payouts
\* has marked paid.
C13_Witness ==
    \E i, j \in RowIds :
        /\ IsLoserRow(game_results[i])
        /\ game_results[j].is_winner
        /\ game_results[j].payment_successful
        /\ rowWriter[j].by = "missed_games"

\* The rows of the deposits a send of process_missed_payouts pays for.
RowsOf(tx_ids) == {i \in RowIds : game_results[i].input_tx_id \in tx_ids}

\* C14: a game row is changed only from the unpaid-winner state (is_winner =
\* TRUE, payment_successful = FALSE) to the paid state, hence at most once;
\* loser rows, donation rows and paid-winner rows never change, and
\* process_missed_payouts never sends for them.
C14_OnlyUnpaidWinnersChange ==
    [][ /\ \A i \in RowIds :
              game_results'[i] # game_results[i] =>
                 /\ IsUnpaidWinner(game_results[i])
                 /\ game_results'[i].payment_successful
                 /\ game_results'[i].output_tx_id # None
        /\ \A s \in sends' \ sends :
              s.by = "missed_payouts" =>
                 \A i \in RowsOf(Deposits(s)) : IsUnpaidWinner(game_results[i])
      ]_vars

(***************************************************************************)
(* The evaluator on its own: the first two bytes of the digest are any two *)
(* bytes, and the evaluation is made for any multiplier.                   *)
(***************************************************************************)
InitEvaluator ==
    /\ vtxos = {}
    /\ game_results = <<>>
    /\ own_transactions = {}
    /\ current_nonce = InitialNonce
    /\ nonces = {NonceRow(current_nonce)}
    /\ rotations = 0
    /\ rot = RotIdle
    /\ web = WebIdle(0)
    /\ emitted = {}
    /\ mon = MonIdle(0)
    /\ rec = [p \in RecoveryProcs |-> RecIdle(0)]
    /\ cli = CliIdle(0)
    /\ sends = {}
    /\ classified = {}
    /\ evaluated = {}
    /\ rowWriter = <<>>
    /\ dbErrors = 0
    /\ args \in {[hash_bytes |-> <<b0, b1>>] : b0 \in Byte, b1 \in Byte}
    /\ ret = None

Evaluate ==
    /\ ret = None
    /\ \E m \in Multipliers :
         ret' = Some([multiplier |-> m,
                      evaluation |-> GameEvaluation(args.hash_bytes, m)])
    /\ UNCHANGED <<vtxos, ledger, nonceVars, mon, rec, cli, server, history, args>>

NextEvaluator == Evaluate

SpecEvaluator == InitEvaluator /\ [][NextEvaluator]_vars

\* a <= b, for two naturals in digits
RECURSIVE BigLeq(_, _)
BigLeq(a, b) ==
    IF Len(a) # Len(b) THEN Len(a) < Len(b)
    ELSE IF a = <<>> THEN TRUE
    ELSE IF a[Len(a)] # b[Len(b)] THEN a[Len(a)] < b[Len(b)]
    ELSE BigLeq(SubSeq(a, 1, Len(a) - 1), SubSeq(b, 1, Len(b) - 1))

\* 2^k in digits
BigPow2(k) ==
    [i \in 1..(k \div LimbBits + 1) |->
        IF i = k \div LimbBits + 1 THEN 2^(k % LimbBits) ELSE 0]

\* f is the double nearest to the fraction num / den (of a value that is
\* not below one half): no further from it than half a unit of the last of
\* the F64_MANTISSA_DIGITS binary digits.
IsNearestF64(f, num, den) ==
    LET scaled == BigMul(BigOf(den), f.mant)
        exact == BigMul(BigOf(num), BigPow2(0 - f.exp))
        twice(a) == BigAdd(a, a, 0)
    IN /\ f.exp <= 0
       /\ BigBitLen(f.mant) <= F64_MANTISSA_DIGITS
       /\ scaled = exact \/ BigBitLen(f.mant) = F64_MANTISSA_DIGITS
       /\ BigLeq(twice(scaled), BigAdd(twice(exact), BigOf(den), 0))
       /\ BigLeq(twice(exact), BigAdd(twice(scaled), BigOf(den), 0))

\* The payout ratios that are the double nearest to ratio / 100.
NearestRatios == {m \in Multipliers : IsNearestF64(PayoutMultiplier[m], m, 100)}

\* The number of the 65536 rolls that win, by multiplier.
WinningRolls ==
    [m \in Multipliers |->
        Cardinality({r \in 0..65535 :
            GameEvaluation(<<r \div 256, r % 256>>, m).is_win})]

\* C15: for every 16-bit roll r (the first two bytes of the digest, the most
\* significant first) and every multiplier m the evaluator returns
\* rolled_value = r in 0..65535 and is_win = (r < threshold(m)); the payout
\* multiplier is present exactly when is_win holds and is then the double
\* of value ratio(m) / 100; exactly threshold(m) of the 65536 rolls win.
C15_EvaluatorContract ==
    /\ \A m \in Multipliers : WinningRolls[m] = get_lower_than(m)
    /\ ret # None =>
         LET r == args.hash_bytes[1] * 256 + args.hash_bytes[2]
             m == Unwrap(ret).multiplier
             e == Unwrap(ret).evaluation
         IN /\ e.rolled_value = r
            /\ r \in 0..65535
            /\ e.is_win = (r < get_lower_than(m))
            /\ (e.payout_multiplier # None) = e.is_win
            /\ e.is_win => /\ Unwrap(e.payout_multiplier) = PayoutMultiplier[m]
                           /\ m \in NearestRatios

\* The last roll that wins at 1.33x.
C15_Witness ==
    /\ ret # None
    /\ Unwrap(ret).multiplier = 133
    /\ args.hash_bytes = <<186, 179>>
    /\ Unwrap(ret).evaluation.is_win
    /\ Unwrap(ret).evaluation.payout_multiplier # None

(***************************************************************************)
(* get_revealable_nonce on its own, called at any point of the rotation    *)
(* of the nonce with any of the texts of NonceStrings: the decimal texts   *)
(* of nonces, other spellings of the same numbers, and texts that are no   *)
(* numbers.  ret keeps the nonce that was current at the call.             *)
(***************************************************************************)
NonceStrings ==
    {to_string(n) : n \in NonceValues \cup {7}}
        \cup {<<"0">> \o to_string(n) : n \in NonceValues}
        \cup {<<"+">> \o to_string(n) : n \in NonceValues}
        \cup {<<>>, <<"a", "b", "c">>, <<"-", "1">>, <<"4", "2", " ">>}

Reveal ==
    \E nonce_str \in NonceStrings :
        /\ args' = [nonce_str |-> nonce_str]
        /\ ret' = Some([current_nonce |-> current_nonce,
                        revealable_nonce |-> get_revealable_nonce(nonce_str)])
        /\ UNCHANGED <<vtxos, ledger, nonceVars, mon, rec, cli, server, history>>

NextReveal ==
    \/ RotateInsert
    \/ RotateWrite
    \/ Reveal

SpecReveal == Init /\ [][NextReveal]_vars

C19_OneCurrentNonce ==
    /\ current_nonce \in NonceValues
    /\ \A row \in nonces :
          IF row.nonce = to_string(current_nonce)
          THEN get_revealable_nonce(row.nonce) = None
          ELSE get_revealable_nonce(row.nonce) = Some(row.nonce)
    /\ Cardinality({row \in nonces : get_revealable_nonce(row.nonce) = None}) <= 1

\* The generation task has inserted the row of the next nonce and has not
\* replaced the current nonce yet, a second time.
C19_Witness ==
    /\ rot.pc = "write"
    /\ rotations = 1
    /\ rot.new_nonce # current_nonce
    /\ NonceRow(rot.new_nonce) \in nonces
    /\ NonceRow(current_nonce) \in nonces

\* C17: every game result that is emitted (broadcast, in the response of
\* GET /games, in the history sent on a websocket) carries as nonce_hash the
\* sha256 of the decimal text of the nonce its game was evaluated with,
\* the nonce of its row; also when the nonce is replaced between the
\* evaluation and the emission, or between the check of the revealable
\* nonce and the reading of the current hash.
C17_HashOfTheGameNonce ==
    \A e \in emitted :
        \E i \in RowIds :
            /\ game_results[i].input_tx_id = e.item.input_tx_id
            /\ e.item.nonce_hash = Sha256Hex(game_results[i].nonce)

\* The roll the evaluator gives for the nonce, the deposit and the
\* multiplier of a row.
RollOfRow(row) ==
    evaluate(parse_u64(row.nonce).value, row.input_tx_id,
             row.multiplier).rolled_value

IsRevealed(row) == get_revealable_nonce(row.nonce) # None

\* C18: for every row of a game that was evaluated (a row that is not a
\* donation, whose rolled_number is -1), the evaluator gives for the nonce
\* n, the input_tx_id and the multiplier of the row the roll the row
\* records, so also once n is revealed; for the rows the monitoring pass
\* writes and for the rows process_missed_games writes.
C18_RevealedRollsVerify ==
    \A i \in RowIds :
        LET row == game_results[i]
        IN row.rolled_number # -1 =>
              /\ rowWriter[i].by \in {"monitor", "missed_games"}
              /\ parse_u64(row.nonce).ok
              /\ RollOfRow(row) = row.rolled_number

\* C18 as stated: every row with a revealed nonce, the donations included.
C18_EveryRevealedRow ==
    \A i \in RowIds :
        IsRevealed(game_results[i]) =>
            RollOfRow(game_results[i]) = game_results[i].rolled_number

\* A row process_missed_games wrote for a game, its nonce revealed.
C18_Witness ==
    \E i \in RowIds :
        /\ rowWriter[i].by = "missed_games"
        /\ game_results[i].rolled_number # -1
        /\ IsRevealed(game_results[i])
        /\ \E nonce \in RecoveryNonces :
              game_results[i].nonce = to_string(nonce)

\* A step of process_missed_games in process p.
MissedGamesStep(p) ==
    /\ rec'[p] # rec[p]
    /\ rec[p].pc = "g_check" \/ rec'[p].pc = "g_check"

DryRunStep(p) ==
    /\ rec'[p] # rec[p]
    /\ rec[p].dry_run \/ rec'[p].dry_run

\* C21: with dry_run = true process_missed_games and process_missed_payouts
\* leave game_results and own_transactions as they are and never call
\* send, whatever outpoints and rows there are.
C21_DryRunChangesNothing ==
    [][ \A p \in RecoveryProcs :
           DryRunStep(p) =>
              /\ game_results' = game_results
              /\ own_transactions' = own_transactions
              /\ sends' = sends
      ]_vars

\* A dry run of process_missed_games has returned while a deposit that
\* wins at its nonce has no row.
C21_Witness ==
    /\ rec[1].pc = "returned"
    /\ rec[1].dry_run
    /\ rec[1].command = "missed_games"
    /\ rec[1].result = "Ok"
    /\ \E v \in vtxos, nonce \in RecoveryNonces :
          /\ MissedGameCandidate(game_results, own_transactions, v)
          /\ MissedGameRow(v, nonce) # None
          /\ Unwrap(MissedGameRow(v, nonce)).is_winner

\* The calls of send of the run of process_missed_payouts that process p
\* has just returned from.
SendsOfRun(p) ==
    {s \in sends : s.by = "missed_payouts" /\ s.run = RecRun(p)}

\* The payouts of that run that failed: MAX_RETRIES calls of send, none
\* accepted.
FailedPayouts(p) ==
    {s.exec : s \in {t \in SendsOfRun(p) : t.attempt = MAX_RETRIES
                        /\ \A u \in SendsOfRun(p) : u.exec = t.exec => ~u.ok}}

\* The errors of the reads and of the wallet that process_missed_payouts
\* returns at once.
EarlyErrors == {"get_unpaid_winners", "sync_spendable_vtxos"}

\* C24: process_missed_payouts returns an error exactly when a payout
\* failed (all MAX_RETRIES calls of send refused) or when the read of the
\* unpaid winners or a sync of the wallet returned an error, which ends
\* the run at once; when it returns Ok every winner it called send for
\* had a call accepted, and no payout failed.
C24_PayoutsResult ==
    \A p \in RecoveryProcs :
        (rec[p].pc = "returned" /\ rec[p].command = "missed_payouts") =>
            /\ rec[p].failed_payouts = Cardinality(FailedPayouts(p))
            /\ rec[p].result = "Err" <=>
                   \/ FailedPayouts(p) # {}
                   \/ rec[p].error \in EarlyErrors
            /\ rec[p].result = "Ok" =>
                   \A s \in SendsOfRun(p) :
                       \E t \in SendsOfRun(p) : t.exec = s.exec /\ t.ok

\* C24 as stated: an error if and only if a payout failed.
C24_ErrorIffPayoutFailed ==
    \A p \in RecoveryProcs :
        (rec[p].pc = "returned" /\ rec[p].command = "missed_payouts") =>
            (rec[p].result = "Err" <=> FailedPayouts(p) # {})

\* process_missed_payouts has returned the error of a failed payout.
C24_Witness ==
    /\ rec[1].pc = "returned"
    /\ rec[1].command = "missed_payouts"
    /\ rec[1].result = "Err"
    /\ rec[1].error = "retry payouts failed"
    /\ Cardinality(FailedPayouts(1)) = 1

\* An earlier run of process_missed_games has met the outpoint of txid.
MetByEarlierGamesRun(txid, run) ==
    \E c \in classified :
        c.by = "missed_games" /\ c.txid = txid /\ c.run < run

\* All the calls of send of the run of process_missed_payouts were
\* accepted.
AllSendsSucceeded(run) ==
    \A s \in sends : (s.by = "missed_payouts" /\ s.run = run) => s.ok

\* A run of process_missed_payouts called send for the deposit.
PaidByRun(s, deposit) ==
    /\ s.by = "missed_payouts"
    /\ \E o \in s.outputs : o.deposit = deposit

\* C22: a second run changes nothing.  process_missed_games inserts no row
\* for an outpoint an earlier run of it has met, and process_missed_payouts
\* calls send for no deposit that an earlier run of it, whose calls of send
\* were all accepted, called send for.
C22_SecondRunChangesNothing ==
    /\ \A c \in classified :
           (c.by = "missed_games" /\ c.let_through) =>
               ~MetByEarlierGamesRun(c.txid, c.run)
    /\ \A s1, s2 \in sends :
           \A o \in s2.outputs :
               (/\ PaidByRun(s1, o.deposit)
                /\ PaidByRun(s2, o.deposit)
                /\ s1.run < s2.run) => ~AllSendsSucceeded(s1.run)

\* The same when no read and no write of the store and no sync failed.
C22_WhenNoWriteFailed ==
    dbErrors = 0 => C22_SecondRunChangesNothing

\* A second run of each procedure has returned after a first run that
\* wrote a row and paid it.
C22_SecondRuns ==
    /\ rec[1].pc = "returned"
    /\ rec[1].command = "missed_payouts"
    /\ rec[1].runs = 2
    /\ dbErrors = 0
    /\ \E i \in RowIds : rowWriter[i].by = "missed_games"
                           /\ game_results[i].payment_successful

\* Process p has returned Ok from process_missed_payouts, run after
\* process_missed_games in the same session (the two share the number of
\* the run), and every call of send of the run was accepted.
GamesThenPayoutsDone(p) ==
    /\ rec[p].pc = "returned"
    /\ rec[p].command = "missed_payouts"
    /\ rec[p].result = "Ok"
    /\ ~rec[p].dry_run
    /\ AllSendsSucceeded(RecRun(p))

\* The outpoints process_missed_games met in the session of process p
\* that are deposits: not an own transaction, with an external sender.
DepositsOfSession(p) ==
    {v \in vtxos :
        /\ \E c \in classified :
              c.by = "missed_games" /\ c.run = RecRun(p) /\ c.txid = v.txid
        /\ ~is_own_transaction(own_transactions, v.txid)
        /\ FindGame(v.script) # None
        /\ FirstSender(v.parents) # None}

AcceptedSendsFor(txid) ==
    {s \in sends : s.ok /\ \E o \in s.outputs : o.deposit = txid}

\* C23: after process_missed_games followed by process_missed_payouts, the
\* sends accepted, every deposit the first has met has exactly one row,
\* and when the row is a winner it is paid and exactly one call of send
\* for the deposit was accepted.
C23_CompleteAndExactlyOnce ==
    \A p \in RecoveryProcs :
        GamesThenPayoutsDone(p) =>
            \A v \in DepositsOfSession(p) :
                /\ Cardinality({i \in RowIds :
                                  game_results[i].input_tx_id = v.txid}) = 1
                /\ \A i \in RowIds :
                      (game_results[i].input_tx_id = v.txid
                         /\ game_results[i].is_winner) =>
                          /\ game_results[i].payment_successful
                          /\ Cardinality(AcceptedSendsFor(v.txid)) = 1

\* The same when no read and no write of the store and no sync failed.
C23_WhenNoWriteFailed ==
    dbErrors = 0 => C23_CompleteAndExactlyOnce

\* The two procedures have run over a winning deposit, no write failed.
C23_SessionDone ==
    /\ GamesThenPayoutsDone(1)
    /\ dbErrors = 0
    /\ \E v \in DepositsOfSession(1) : AcceptedSendsFor(v.txid) # {}

\* The rows of the deposit txid.
RowsFor(txid) == {i \in RowIds : game_results[i].input_tx_id = txid}

\* C25: the server crashed after send returned for a winning deposit and
\* before its row was written; the monitoring task has not run since.
\* Once process_missed_games, started after the crash, and then
\* process_missed_payouts have returned Ok, no call or write having
\* failed, the deposit has exactly one row, written by
\* process_missed_games, and the row is a paid winner.
C25_CrashedPayoutRecovered ==
    (/\ GamesThenPayoutsDone(1)
     /\ Faults = 0
     /\ rec[1].runs > mon.lost_at) =>
        \A v \in DepositsOfSession(1) :
            v.txid \in mon.lost =>
               /\ Cardinality(RowsFor(v.txid)) = 1
               /\ \A i \in RowsFor(v.txid) :
                     /\ rowWriter[i].by = "missed_games"
                     /\ game_results[i].is_winner
                     /\ game_results[i].payment_successful

\* C26: once the listing of the deposits has failed the monitoring task
\* takes no further step: the process has ended.
C26_FeedErrorEndsTheProcess ==
    [][ mon.last_error # "" => mon' = mon ]_vars

\* C27: when the send or the settle command has ended with Ok and the
\* wallet had returned a txid, the txid is in own_transactions under the
\* type of the command.
C27_ManualTxidIsOwn ==
    (cli.pc = "idle" /\ cli.result = "Ok" /\ cli.txid # None) =>
        \E o \in own_transactions :
            /\ o.tx_id = Unwrap(cli.txid)
            /\ o.transaction_type = TransactionType(cli.command)

\* A send and a settle have ended with Ok, each with a txid.
C27_Witness ==
    /\ cli.pc = "idle"
    /\ cli.result = "Ok"
    /\ cli.command = "settle"
    /\ cli.txid # None
    /\ \E o \in own_transactions : o.transaction_type = "manual_send"
    /\ \E o \in own_transactions : o.transaction_type = "consolidation"

\* C30: for every multiplier the greatest bet the server advertises is the
\* donation threshold of the monitoring pass, and every row, written by
\* the pass or by process_missed_games, is a donation (rolled_number -1)
\* exactly when its amount is above the greatest bet advertised for its
\* multiplier.
C30_MaxBetIsDonationCap ==
    /\ \A m \in Multipliers : max_bet_amount(m) = get_donation_threshold(m)
    /\ \A i \in RowIds :
          LET row == game_results[i]
          IN /\ rowWriter[i].by \in {"monitor", "missed_games"}
             /\ row.rolled_number = -1 <=>
                   row.bet_amount > max_bet_amount(row.multiplier)

\* A bet of exactly the advertised amount was settled as a game and a
\* deposit of one satoshi more as a donation.
C30_Witness ==
    /\ \E i \in RowIds :
          /\ game_results[i].bet_amount =
                max_bet_amount(game_results[i].multiplier)
          /\ game_results[i].rolled_number # -1
    /\ \E i \in RowIds :
          /\ game_results[i].bet_amount =
                max_bet_amount(game_results[i].multiplier) + 1
          /\ game_results[i].rolled_number = -1

\* The outpoints the first loop of pass run examined, in the order of the
\* listing.
ObservedIn(run) ==
    ListOf({v \in vtxos :
               \E c \in classified :
                   c.by = "monitor" /\ c.run = run /\ c.txid = v.txid})

PositionIn(list, txid) ==
    CHOOSE k \in 1..Len(list) : list[k].txid = txid

\* The monitoring task observed the deposit of row i before that of row j.
ObservedBefore(i, j) ==
    \/ rowWriter[i].run < rowWriter[j].run
    \/ /\ rowWriter[i].run = rowWriter[j].run
       /\ LET list == ObservedIn(rowWriter[i].run)
          IN PositionIn(list, game_results[i].input_tx_id)
                < PositionIn(list, game_results[j].input_tx_id)

\* C29: the monitoring task writes the rows in the order it observed the
\* deposits: of two rows it wrote, the earlier one is of the deposit
\* observed first.
C29_RowsInArrivalOrder ==
    \A i, j \in RowIds :
        (/\ rowWriter[i].by = "monitor"
         /\ rowWriter[j].by = "monitor"
         /\ i < j) => ObservedBefore(i, j)

\* The calls of send_vtxo that are in flight.
SendsInFlight ==
    (IF mon.sending THEN 1 ELSE 0)
       + Cardinality({p \in RecoveryProcs : rec[p].sending})

\* C28: at most one call of send of the house wallet is in flight, also
\* while a recovery command runs.
C28_OneSendInFlight ==
    SendsInFlight <= 1

\* The deposits the first loop of a monitoring pass found new and
\* evaluated (a sender was resolved), by the txid.
EvaluatedByMonitor ==
    {c.txid : c \in {d \in classified : d.by = "monitor" /\ d.let_through}}

\* C31: a failure to resolve the sender of a deposit drops that deposit
\* only: once the pass is over, no send and no ledger write having failed,
\* every deposit the pass had evaluated has its row, also when the lookup
\* of the parents of another deposit of the pass returned an error.
C31_SenderFailureDropsOnlyThatDeposit ==
    (mon.pc = "sleep" /\ Faults = 0) =>
        \A txid \in EvaluatedByMonitor :
            is_transaction_processed(game_results, txid)

(***************************************************************************)
(* The resolution of the sender.  The deposits of the players, a deposit   *)
(* whose parents the backend does not know, and manual sends of the        *)
(* operator to a game address, which spend an outpoint the house holds at  *)
(* a game address, are met by the monitoring pass and by                   *)
(* process_missed_games.                                                   *)
(***************************************************************************)
DepositUnresolved ==
    /\ Activity < MaxActivity
    /\ \E d \in UnresolvedDeposits \ vtxos : vtxos' = vtxos \cup {d}
    /\ UNCHANGED <<server, call, ledger, nonceVars, mon, rec, cli, history>>

NextSenders ==
    \/ Deposit
    \/ DepositUnresolved
    \/ CliSend
    \/ CliInsertOwn
    \/ MonStart
    \/ MonClassify
    \/ MonEvaluateErr
    \/ MonDonation
    \/ MonSendIndividual
    \/ MonOwnIndividual
    \/ MonWinnerIndividual
    \/ MonSendBatch
    \/ MonOwnBatch
    \/ MonWinnerBatch
    \/ MonLoser
    \/ MonBroadcast
    \/ RecStartGames(1)
    \/ RecGame(1)
    \/ RecGameErr(1)
    \/ RecExit(1)

SpecSenders == Init /\ [][NextSenders]_vars

\* The addresses the house holds the keys of.
HouseAddresses == {MainAddress} \cup {GameAddress(m) : m \in Multipliers}

\* The listed outpoint of a txid.
OutpointsOf(txid) == {v \in vtxos : v.txid = txid}

\* No parent of the outpoint is an address other than the main address.
NoExternalParent(v) ==
    \A k \in 1..Len(v.parents) : v.parents[k] = MainAddress

\* C32: the player address of every game row is the first parent address
\* of its deposit that is not the main address of the house, which is the
\* one address the sender is compared with; a deposit whose parent list is
\* empty or holds the main address only has no row and no payout; so no
\* row has the main address as player_address.
C32_PlayerIsFirstExternalParent ==
    /\ \A i \in RowIds :
          LET row == game_results[i]
          IN /\ row.player_address # MainAddress
             /\ \A v \in OutpointsOf(row.input_tx_id) :
                   \E k \in 1..Len(v.parents) :
                       /\ v.parents[k] = row.player_address
                       /\ \A j \in 1..(k - 1) : v.parents[j] = MainAddress
    /\ \A v \in vtxos :
          NoExternalParent(v) =>
              /\ ~is_transaction_processed(game_results, v.txid)
              /\ SendsFor(v.txid) = {}

\* C32 as stated, for every address of the house: no game row has an
\* address of the house, main or game, as player_address.
C32_NoHouseAddressAsPlayer ==
    \A i \in RowIds : game_results[i].player_address \notin HouseAddresses

\* A deposit whose first parent is the main address and whose second is a
\* player has its row, and a deposit with no external parent was met by a
\* classifier in the same behaviour and was not let through.
C32_Witness ==
    /\ \E i \in RowIds, v \in vtxos :
          /\ v.txid = game_results[i].input_tx_id
          /\ Len(v.parents) > 1
          /\ Head(v.parents) = MainAddress
          /\ game_results[i].player_address = v.parents[2]
    /\ \E v \in vtxos, c \in classified :
          /\ NoExternalParent(v)
          /\ c.txid = v.txid
          /\ ~c.let_through

(***************************************************************************)
(* The match of an outpoint to a game address by its script-pubkey: one    *)
(* outpoint at any game address, in the p2tr or in the sub-dust form of    *)
(* its script, of an amount just below or at the dust value, is handed to  *)
(* each function that makes the match.  The result is the set of the       *)
(* multipliers of the game addresses the function matched it to.           *)
(***************************************************************************)
ScriptAmounts == {DustValue - 1, DustValue, DustValue + 1}

ScriptOf(addr, sub_dust) ==
    IF sub_dust THEN to_sub_dust_script_pubkey(addr)
    ELSE to_p2tr_script_pubkey(addr)

\* client.rs, get_subscription: the events the stream yields for an output,
\* one for every game address whose p2tr script the output pays to.
SubscriptionEvent(v) ==
    [txid |-> v.txid, vout |-> v.vout, amount |-> v.amount,
     script_pubkey |-> v.script]

get_subscription(v) ==
    [m \in {n \in Multipliers : v.script = to_p2tr_script_pubkey(GameAddress(n))}
        |-> SubscriptionEvent(v)]

\* client.rs, spendable_offchain_vtxos: the listed outpoints by game
\* address, an outpoint being kept for the address whose script_pubkey()
\* (the p2tr script) equals its script.
spendable_offchain_vtxos(spendable) ==
    [m \in Multipliers |->
        {vtop \in spendable :
            vtop.script = to_p2tr_script_pubkey(GameAddress(m))}]

InitScripts ==
    /\ args \in {[outpoint |-> Vtxo("ab", amount, m,
                                   ScriptOf(GameAddress(m), sub_dust),
                                   <<"alice">>)] :
                    m \in Multipliers, amount \in ScriptAmounts,
                    sub_dust \in BOOLEAN}
    /\ ret = None
    /\ vtxos = {args.outpoint}
    /\ game_results = <<>>
    /\ own_transactions = {}
    /\ current_nonce = InitialNonce
    /\ nonces = {NonceRow(current_nonce)}
    /\ rotations = 0
    /\ rot = RotIdle
    /\ web = WebIdle(0)
    /\ emitted = {}
    /\ mon = MonIdle(0)
    /\ rec = [p \in RecoveryProcs |-> RecIdle(0)]
    /\ cli = CliIdle(0)
    /\ sends = {}
    /\ classified = {}
    /\ evaluated = {}
    /\ rowWriter = <<>>
    /\ dbErrors = 0

Matched(by, multipliers) == [by |-> by, multipliers |-> multipliers]

\* The stream of get_subscription receives the transaction of the outpoint.
MatchSubscription ==
    /\ ret = None
    /\ ret' = Some(Matched("get_subscription",
                           DOMAIN get_subscription(args.outpoint)))
    /\ UNCHANGED <<vtxos, ledger, nonceVars, mon, rec, cli, server, history, args>>

\* spendable_offchain_vtxos lists the outpoints of the game addresses.
MatchSpendable ==
    /\ ret = None
    /\ ret' = Some(Matched("spendable_offchain_vtxos",
                           {m \in Multipliers :
                               args.outpoint \in spendable_offchain_vtxos(vtxos)[m]}))
    /\ UNCHANGED <<vtxos, ledger, nonceVars, mon, rec, cli, server, history, args>>

\* process_missed_games finds the game of the outpoint.
MatchMissedGames ==
    /\ ret = None
    /\ ret' = Some(Matched("process_missed_games",
                           LET found == FindGame(args.outpoint.script)
                           IN IF found = None THEN {} ELSE {Unwrap(found)}))
    /\ UNCHANGED <<vtxos, ledger, nonceVars, mon, rec, cli, server, history, args>>

NextScripts ==
    \/ MatchSubscription
    \/ MatchSpendable
    \/ MatchMissedGames

SpecScripts == InitScripts /\ [][NextScripts]_vars

\* process_missed_games matches an outpoint in either form of the script
\* to its game address.
C33_MissedGamesMatchesBoth ==
    (ret # None /\ Unwrap(ret).by = "process_missed_games") =>
        Unwrap(ret).multipliers = {args.outpoint.multiplier}

\* C33: an outpoint at a game address is matched to that address and to
\* its multiplier, and to no other, in the p2tr and in the sub-dust form of
\* its script, by the feed of the deposits (get_subscription, the listing
\* of the spendable outpoints) and by process_missed_games.
C33_BothScriptFormsMatched ==
    ret # None => Unwrap(ret).multipliers = {args.outpoint.multiplier}

\* The calls of send_vtxo of process_missed_payouts that were accepted and
\* whose two ledger writes the procedure has gone through.
RetriedSends ==
    {s \in sends :
        /\ s.by = "missed_payouts"
        /\ s.ok
        /\ \A p \in RecoveryProcs :
              ~(rec[p].pc \in {"p_own", "p_mark"} /\ rec[p].txid = s.txid)}

RetriedSendIsRecorded(s) ==
    /\ is_own_transaction(own_transactions, Unwrap(s.txid))
    /\ \A d \in Deposits(s) :
          /\ \A i \in RowsFor(d) :
                /\ game_results[i].payment_successful
                /\ game_results[i].output_tx_id = s.txid
          /\ \A t \in SendsFor(d) : (t.by = "missed_payouts" /\ t.ok) => t = s

\* C34: once process_missed_payouts has had a send accepted for a winner
\* and has gone through its writes, the row of the winner is paid with the
\* txid of the send as output_tx_id, the txid is in own_transactions, and
\* no other send of process_missed_payouts was accepted for the row, a
\* failed ledger write included.
C34_RetriedSendIsRecorded ==
    \A s \in RetriedSends : RetriedSendIsRecorded(s)

\* The same when no read and no write of the ledger has failed.
C34_WhenNoWriteFailed ==
    dbErrors = 0 => C34_RetriedSendIsRecorded

\* A second run of process_missed_payouts has returned after a run whose
\* send was accepted.
C34_SecondRun ==
    /\ rec[1].pc = "returned"
    /\ rec[1].command = "missed_payouts"
    /\ \E s \in RetriedSends : s.run < RecRun(1)

\* The nonce text has a row in the table of nonces, with the hash of the
\* text.
HasNonceRow(nonce_str) ==
    \E n \in nonces :
        n.nonce = nonce_str /\ n.nonce_hash = Sha256Hex(nonce_str)

\* C35: the nonce that is current has its row in the table of nonces, with
\* nonce_hash the sha256 of its decimal text, and so has the nonce stored in
\* every game row.
C35_CurrentNonceHasRow ==
    /\ HasNonceRow(to_string(current_nonce))
    /\ \A i \in RowIds : HasNonceRow(game_results[i].nonce)

\* The same when no read and no write of the store has failed.
C35_WhenNoWriteFailed ==
    dbErrors = 0 => C35_CurrentNonceHasRow

\* A game was recorded under a nonce that a rotation made current.
C35_RotatedNonceInRow ==
    /\ rotations > 0
    /\ \E i \in RowIds : game_results[i].nonce = to_string(current_nonce)

(***************************************************************************)
(* Recovery run again and again.  The operator runs                        *)
(* catchup-missed-payouts again as long as the ledger shows unpaid         *)
(* winners, and every run of it goes on to its end.  Sends and ledger      *)
(* writes fail finitely often (at most MaxFaults times), after which they  *)
(* succeed.                                                                *)
(***************************************************************************)
\* catchup-missed-payouts is run once more while winners are unpaid.
RecRetryPayouts(p) ==
    /\ rec[p].pc = "idle"
    /\ get_unpaid_winners(game_results) # <<>>
    /\ rec' = [rec EXCEPT ![p] =
                  RecDone([RecIdle(rec[p].runs + 1) EXCEPT
                              !.pc = "p_send",
                              !.unpaid_winners =
                                 get_unpaid_winners(game_results)])]
    /\ UNCHANGED <<server, call, vtxos, ledger, nonceVars, mon, cli, history>>

NextRetry ==
    \/ Deposit
    \/ RecStartGames(1)
    \/ RecGame(1)
    \/ RecRetryPayouts(1)
    \/ RecPaySyncErr(1)
    \/ RecPaySend(1)
    \/ RecPayOwn(1)
    \/ RecPayMark(1)
    \/ RecExit(1)

SpecRetry ==
    /\ Init
    /\ [][NextRetry]_vars
    /\ WF_vars(RecRetryPayouts(1))
    /\ WF_vars(RecPaySend(1))
    /\ WF_vars(RecPayOwn(1))
    /\ WF_vars(RecPayMark(1))
    /\ WF_vars(RecExit(1))

\* The row of the deposit is an unpaid winner / a paid winner.
UnpaidWinnerOf(txid) ==
    \E i \in RowIds :
        game_results[i].input_tx_id = txid /\ IsUnpaidWinner(game_results[i])

PaidWinnerOf(txid) ==
    \E i \in RowIds :
        /\ game_results[i].input_tx_id = txid
        /\ game_results[i].is_winner
        /\ game_results[i].payment_successful

\* Every run of catchup-missed-games ends.
GamesRunsEnd == []<>(rec[1].pc # "g_check")

\* The last of the MAX_RETRIES sends for a winner has failed and further
\* winners are in the list.
GivesUpOnWinner(p) ==
    /\ rec[p].pc = "p_send"
    /\ Len(rec[p].unpaid_winners) > 1
    /\ rec'[p].failed_payouts = rec[p].failed_payouts + 1

\* The loop goes on with the next winner of the list.
GoesOnWithNextWinner(p) ==
    /\ rec'[p].pc = "p_send"
    /\ rec'[p].unpaid_winners = Tail(rec[p].unpaid_winners)
    /\ rec'[p].retry_count = 0

\* C36: with catchup-missed-payouts run again and again and the sends
\* succeeding in the end, every unpaid winner row is eventually marked
\* paid; and when the MAX_RETRIES sends for one winner have all failed the
\* run goes on with the next unpaid winner it has read.
C36_UnpaidWinnersGetPaid ==
    /\ GamesRunsEnd =>
          \A txid \in DepositTxids : UnpaidWinnerOf(txid) ~> PaidWinnerOf(txid)
    /\ [][GivesUpOnWinner(1) => GoesOnWithNextWinner(1)]_vars

\* In one run the payout of a winner failed MAX_RETRIES times and another
\* winner, read in the same run, was paid and marked.
C36_Witness ==
    /\ rec[1].pc = "returned"
    /\ rec[1].failed_payouts = 1
    /\ \E s \in SendsOfRun(1) :
          /\ s.ok
          /\ \A d \in Deposits(s) : PaidWinnerOf(d)
    /\ \E s \in SendsOfRun(1) :
          /\ ~s.ok
          /\ \A d \in Deposits(s) : UnpaidWinnerOf(d)

(***************************************************************************)
(* The effect of a losing bet: process_loser of the monitoring pass and    *)
(* the loser branch of process_missed_games.                               *)
(***************************************************************************)
RowsOfDeposit(rows, tx_id) ==
    {i \in 1..Len(rows) : rows[i].input_tx_id = tx_id}

\* The fields of the row that process_loser writes.
LoserRowFields(row) ==
    /\ ~row.is_winner
    /\ row.winning_amount = None
    /\ row.output_tx_id = None
    /\ row.payment_successful

\* After the step the ledger holds exactly one row of the deposit, a loser
\* row, and the step sent nothing and wrote no own_transactions row.
LoserEffect(tx_id) ==
    /\ Cardinality(RowsOfDeposit(game_results', tx_id)) = 1
    /\ \A i \in RowsOfDeposit(game_results', tx_id) : LoserRowFields(game_results'[i])
    /\ sends' = sends
    /\ own_transactions' = own_transactions

\* process_loser is run for the first loser of the pass.
MonLoserStep == mon.pc = "loser" /\ mon' # mon

\* process_missed_games comes to a new deposit whose roll is a loss.
RecLoserStep(p) ==
    /\ rec[p].pc = "g_check"
    /\ rec'[p] # rec[p]
    /\ rec'[p].error # "get_parent_vtxo"
    /\ WritesLedger(rec[p].dry_run)
    /\ MissedGameCandidate(game_results, own_transactions, Head(rec[p].snapshot))
    /\ LET row == MissedGameRow(Head(rec[p].snapshot), rec[p].nonce)
       IN /\ row # None
          /\ ~Unwrap(row).is_winner
          /\ Unwrap(row).rolled_number # -1

LosingBetSteps ==
    /\ MonLoserStep => LoserEffect(Head(mon.losers).outpoint.txid)
    /\ \A p \in RecoveryProcs :
          RecLoserStep(p) => LoserEffect(Head(rec[p].snapshot).txid)

\* C37: a losing bet produces exactly one game row, with is_winner FALSE,
\* winning_amount and output_tx_id NULL and payment_successful TRUE, and
\* causes no send and no own_transactions row.
C37_LosingBetOneRowNoSend == [][LosingBetSteps]_vars

\* The same while the insert of the row is not rejected by the database
\* for a fault.
C37_WhenNoWriteFailed == [][dbErrors' = dbErrors => LosingBetSteps]_vars

\* A loser row written by process_loser is in the ledger.
C37_LoserRowWritten ==
    \E i \in RowIds :
       LoserRowFields(game_results[i]) /\ rowWriter[i].by = "monitor"

(***************************************************************************)
(* Two runs of process_missed_payouts at the same time.                    *)
(***************************************************************************)
\* The accepted sends of process_missed_payouts for the row of a deposit.
AcceptedRetrySends(tx_id) ==
    {s \in sends : s.by = "missed_payouts" /\ s.ok /\ tx_id \in Deposits(s)}

\* C38: two runs of process_missed_payouts never both send a payout for the
\* same unpaid winner row: every row receives at most one accepted send of
\* process_missed_payouts.
C38_OneRetrySendPerWinner ==
    \A tx_id \in DepositTxids : Cardinality(AcceptedRetrySends(tx_id)) <= 1

\* The same while no ledger write has failed.
C38_WhenNoWriteFailed == dbErrors = 0 => C38_OneRetrySendPerWinner

\* Two runs of process_missed_payouts are in their loops at the same time.
C38_TwoRunsAtOnce ==
    \A p \in RecoveryProcs : rec[p].pc \in {"p_send", "p_own", "p_mark"}

(***************************************************************************)
(* A transaction with two outputs to game addresses.  The transaction ff   *)
(* pays 100 sats to the 2x address (output 0, one of PlayerDeposits) and   *)
(* 500 sats to the same address (output 1); the outputs share the txid,    *)
(* hence the roll, and the parents.                                        *)
(***************************************************************************)
SecondOutputs ==
    { [Vtxo("ff", 500, 200, to_p2tr_script_pubkey(GameAddress(200)),
            <<MainAddress, "bob">>) EXCEPT !.vout = 1] }

\* The transaction arrives: both its outputs become spendable.
DepositOutputs ==
    /\ Activity < MaxActivity
    /\ \E d \in SecondOutputs :
          /\ d \notin vtxos
          /\ vtxos' = vtxos \cup {d} \cup {e \in PlayerDeposits : e.txid = d.txid}
    /\ UNCHANGED <<server, call, ledger, nonceVars, mon, rec, cli, history>>

NextOutputs ==
    \/ Deposit
    \/ DepositOutputs
    \/ MonStart
    \/ MonClassify
    \/ MonDonation
    \/ MonSendIndividual
    \/ MonOwnIndividual
    \/ MonWinnerIndividual
    \/ MonSendBatch
    \/ MonOwnBatch
    \/ MonWinnerBatch
    \/ MonLoser
    \/ MonBroadcast

SpecOutputs == Init /\ [][NextOutputs]_vars

\* The accepted sends of the monitoring pass.
AcceptedMonitorSends == {s \in sends : s.by = "monitor" /\ s.ok}

\* The ledger has a row of the deposit that carries the txid of the send.
AccountedFor(s, tx_id) ==
    \E i \in RowIds :
        /\ game_results[i].input_tx_id = tx_id
        /\ game_results[i].output_tx_id = s.txid

\* C39: once the monitoring pass is over, every winner that was included in
\* an accepted send of it has a game row of its deposit whose output_tx_id
\* is the txid of that send.
C39_SendsAccountedFor ==
    mon.pc = "sleep" =>
       \A s \in AcceptedMonitorSends : \A tx_id \in Deposits(s) : AccountedFor(s, tx_id)

\* The same while no ledger write has failed.
C39_WhenNoWriteFailed == dbErrors = 0 => C39_SendsAccountedFor

\* Both outputs of one transaction won in one pass and were paid.
C39_BothOutputsPaid ==
    /\ mon.pc = "sleep"
    /\ \E d \in SecondOutputs :
          Cardinality({s \in AcceptedMonitorSends : d.txid \in Deposits(s)}) = 2

(***************************************************************************)
(* The settlement of the winners of one monitoring pass.                   *)
(***************************************************************************)
\* The calls of send of process_regular_batch_winners in a pass, and those
\* of process_individual_winner.
IsBatchSend(s) ==
    s.by = "monitor" /\ s.exec = "m" \o ToString(s.run) \o ":" \o "batch"

BatchSends(pass) == {s \in sends : IsBatchSend(s) /\ s.run = pass}

IndividualSends == {s \in sends : s.by = "monitor" /\ ~IsBatchSend(s)}

PassOver(pass) == pass < mon.passes \/ (pass = mon.passes /\ mon.pc = "sleep")

PaidBy(s, tx_id) ==
    \E i \in RowIds :
        /\ game_results[i].input_tx_id = tx_id
        /\ game_results[i].is_winner
        /\ game_results[i].payment_successful
        /\ game_results[i].output_tx_id = s.txid

\* The regular winners of a pass whose batch was sent for are settled as one.
BatchAllOrNothing(pass) ==
    /\ \A s, t \in BatchSends(pass) : s.outputs = t.outputs
    /\ \A s \in BatchSends(pass) : \A o \in s.outputs : o.amount >= DustValue
    /\ Cardinality({s \in BatchSends(pass) : s.ok}) <= 1
    /\ \A s \in BatchSends(pass) :
          IF \E t \in BatchSends(pass) : t.ok
          THEN s.ok => \A tx_id \in Deposits(s) : PaidBy(s, tx_id)
          ELSE /\ Cardinality(BatchSends(pass)) = MAX_RETRIES
               /\ \A tx_id \in Deposits(s) : UnpaidWinnerOf(tx_id)

\* A dust winner is paid by a send of its own.
DustWinnersPaidAlone ==
    \A s \in IndividualSends :
        /\ Cardinality(s.outputs) = 1
        /\ \A o \in s.outputs : o.amount < DustValue

\* C40: the regular winners of a monitoring pass are settled all or
\* nothing: one accepted send pays them all and the row of each carries its
\* txid with payment_successful TRUE, or after MAX_RETRIES failed sends each
\* of them is recorded as an unpaid winner; a winner whose payout is below
\* the dust value is paid by a send of its own.
C40_BatchAllOrNothing ==
    /\ DustWinnersPaidAlone
    /\ \A pass \in 1..mon.passes : PassOver(pass) => BatchAllOrNothing(pass)

\* The same while no ledger write has failed.
C40_WhenNoWriteFailed == dbErrors = 0 => C40_BatchAllOrNothing

\* A pass with two regular winners paid by one send, and one whose batch
\* send failed MAX_RETRIES times.
C40_TwoPaidByOneSend ==
    \E pass \in 1..mon.passes :
       /\ PassOver(pass)
       /\ \E s \in BatchSends(pass) :
             /\ s.ok
             /\ Cardinality(s.outputs) = 2
             /\ \A tx_id \in Deposits(s) : PaidBy(s, tx_id)

C40_BatchGivenUp ==
    \E pass \in 1..mon.passes :
       /\ PassOver(pass)
       /\ BatchSends(pass) # {}
       /\ \A s \in BatchSends(pass) :
             ~s.ok /\ \A tx_id \in Deposits(s) : UnpaidWinnerOf(tx_id)

====
